---- MODULE Spec2Model ----
(***************************************************************************)
(* Model of the scripts of the Zendesk / AWS Support connector:            *)
(*   scripts/verify_token_security.py  (the validator, SpecVerify)         *)
(*   scripts/generate_secure_token.py  (the generator, SpecGenerate)       *)
(*   both, called by concurrent callers (SpecConcurrent)                   *)
(*   scripts/zendesk_configuration.py  (the configurator, SpecZendesk)     *)
(*   calculate_entropy in double precision (SpecEntropy)                   *)
(*   zendesk_configuration.py, two setups at once (SpecParallelSetup)      *)
(*   lambdas/api_authorizer/handler.py  (the authorizer, SpecAuthorizer)   *)
(*   generate_secure_token.update_config_file  (SpecConfigFile)            *)
(*                                                                         *)
(* A token is a sequence of one-character strings.  Outside SpecEntropy,   *)
(* entropy is kept in fixed point, in millionths of a bit (Log2Micro), so  *)
(* that 2.0 bits is 2000000.                                               *)
(***************************************************************************)
EXTENDS Integers, Sequences, FiniteSets, TLC

VARIABLES
    \* verify_token_security.main
    bearer_token,   \* the string supplied by config file, --token or prompt
    args,           \* [min_length, min_entropy]
    token_part,     \* the string that is scored
    checks,         \* the list of (name, (passed, message)) built at lines 147-152
    all_passed,     \* the aggregate of lines 155-161
    idx,            \* position of the reporting loop in checks
    logged,         \* the (name, passed) lines the reporting loop has written
    pc,             \* position of main
    \* generate_secure_token
    length,         \* requested length
    min_entropy,    \* requested minimum entropy, in millionths of a bit
    token,          \* the candidate of the innermost call
    depth,          \* number of enclosing generate_secure_token frames
    gpc,            \* position of the innermost call
    \* concurrent callers of the two scripts' functions
    calls,          \* the frame of each caller: its arguments, locals and position
    \* zendesk_configuration.py and the Zendesk account it talks to
    remote,         \* the account: for each resource type, the list GET returns
    next_id,        \* the id Zendesk gives to the next resource it creates
    http_log,       \* the requests _make_request has sent, in order
    conf,           \* the ZendeskConfigurator of each run of main
    faults,         \* number of error responses Zendesk has given
    \* calculate_entropy in double precision
    ce_script,      \* the script whose calculate_entropy runs
    ce_token,       \* its argument
    ce_char_count,  \* the dict char_count
    ce_pos,         \* position of the running loop
    ce_entropy,     \* the double entropy
    ce_pc,          \* position of calculate_entropy
    \* lambdas/api_authorizer/handler.py
    API_TOKEN,      \* the module-level secret of line 5
    event,          \* the event the handler is invoked with
    auth_token,     \* the local `token` of lambda_handler
    is_auth,        \* the local is_auth
    returned,       \* what lambda_handler returned
    apc,            \* position of lambda_handler
    \* generate_secure_token.update_config_file and the lines of main that call it
    config_file,    \* the file at config_path
    file_at_entry,  \* the file at config_path when update_config_file was called
    new_token,      \* the argument token
    config,         \* the local config
    update_result,  \* the pair update_config_file returned
    exit_code,      \* the exit status of main
    upc             \* position of update_config_file

vars == <<bearer_token, args, token_part, checks, all_passed, idx, logged, pc,
          length, min_entropy, token, depth, gpc,
          calls, remote, next_id, http_log, conf, faults,
          ce_script, ce_token, ce_char_count, ce_pos, ce_entropy, ce_pc,
          API_TOKEN, event, auth_token, is_auth, returned, apc,
          config_file, file_at_entry, new_token, config, update_result, exit_code, upc>>

verify_vars == <<bearer_token, args, token_part, checks, all_passed, idx, logged, pc>>
gen_vars == <<length, min_entropy, token, depth, gpc>>
conc_vars == <<calls>>
zendesk_vars == <<remote, next_id, http_log, conf, faults>>
entropy_vars == <<ce_script, ce_token, ce_char_count, ce_pos, ce_entropy, ce_pc>>
auth_vars == <<API_TOKEN, event, auth_token, is_auth, returned, apc>>
config_vars == <<config_file, file_at_entry, new_token, config, update_result, exit_code, upc>>

\* no concurrent caller exists
ConcIdle == calls = <<>>

\* calculate_entropy is not running
EntropyIdle ==
    /\ ce_script = ""
    /\ ce_token = <<>>
    /\ ce_char_count = <<>>
    /\ ce_pos = 0
    /\ ce_entropy = <<>>
    /\ ce_pc = "idle"

\* the authorizer has not been loaded
AuthIdle ==
    /\ API_TOKEN = <<>>
    /\ event = <<>>
    /\ auth_token = <<>>
    /\ is_auth = FALSE
    /\ returned = <<>>
    /\ apc = "idle"

\* update_config_file is not running
ConfigIdle ==
    /\ config_file = <<>>
    /\ file_at_entry = <<>>
    /\ new_token = <<>>
    /\ config = <<>>
    /\ update_result = <<>>
    /\ exit_code = 0
    /\ upc = "idle"

\* no configurator has been constructed
ZendeskIdle ==
    /\ remote = <<>>
    /\ next_id = 0
    /\ http_log = <<>>
    /\ conf = <<>>
    /\ faults = 0

----------------------------------------------------------------------------
(* Bounds of the model *)

\* longest string over RepeatChars given to the validator
MaxLen == 8
\* longest string over RunChars given to the validator
MaxRunLen == 4
\* largest length requested from the generator
MaxLength == 5
\* number of generate_secure_token frames the interpreter's stack holds
StackLimit == 3

----------------------------------------------------------------------------
(* Python built-ins *)

Min(a, b) == IF a < b THEN a ELSE b

Range(s) == {s[i] : i \in DOMAIN s}

\* range(lo, hi)
PyRange(lo, hi) == lo .. (hi - 1)

\* s[lo:hi] for lo, hi >= 0: the end is clamped, an empty window is ""
PySlice(s, lo, hi) ==
    IF lo >= Min(hi, Len(s)) THEN <<>> ELSE SubSeq(s, lo + 1, Min(hi, Len(s)))

\* sub in s
PyContains(sub, s) ==
    \E j \in 0 .. (Len(s) - Len(sub)) : PySlice(s, j, j + Len(sub)) = sub

\* s.startswith(prefix)
PyStartsWith(s, prefix) == PySlice(s, 0, Len(prefix)) = prefix

\* s.split(sep, 1) for a one-character sep: cut at the first sep, if any
PySplit1(s, sep) ==
    IF \E j \in DOMAIN s : s[j] = sep
    THEN LET j == CHOOSE k \in DOMAIN s :
                      s[k] = sep /\ \A m \in 1 .. (k - 1) : s[m] # sep
         IN  <<PySlice(s, 0, j - 1), PySlice(s, j, Len(s))>>
    ELSE <<s>>

\* round(log2(n) * 10^6)
Log2Micro ==
    <<0, 1000000, 1584963, 2000000, 2321928, 2584963, 2807355, 3000000,
      3169925, 3321928, 3459432, 3584963, 3700440, 3807355, 3906891, 4000000,
      4087463, 4169925, 4247928, 4321928, 4392317, 4459432, 4523562, 4584963,
      4643856, 4700440, 4754888, 4807355, 4857981, 4906891, 4954196, 5000000>>

ascii_lowercase ==
    <<"a", "b", "c", "d", "e", "f", "g", "h", "i", "j", "k", "l", "m",
      "n", "o", "p", "q", "r", "s", "t", "u", "v", "w", "x", "y", "z">>
ascii_uppercase ==
    <<"A", "B", "C", "D", "E", "F", "G", "H", "I", "J", "K", "L", "M",
      "N", "O", "P", "Q", "R", "S", "T", "U", "V", "W", "X", "Y", "Z">>
digits == <<"0", "1", "2", "3", "4", "5", "6", "7", "8", "9">>
special ==
    <<"!", "@", "#", "$", "%", "^", "&", "*", "(", ")", "-", "_", "=", "+",
      "[", "]", "{", "}", "|", ";", ":", ",", ".", "<", ">", "?", "/">>

----------------------------------------------------------------------------
(* verify_token_security.py: the scoring functions *)

\* the dict char_count of calculate_entropy
CharCount(tok) ==
    [c \in Range(tok) |-> Cardinality({i \in DOMAIN tok : tok[i] = c})]

\* sum over char_count.values() of count * (log2(n) - log2(count)), which is
\* n times the sum of -probability * log2(probability)
RECURSIVE EntropyTerms(_, _, _)
EntropyTerms(cc, chars, n) ==
    IF chars = {} THEN 0
    ELSE LET c == CHOOSE x \in chars : TRUE
         IN  cc[c] * (Log2Micro[n] - Log2Micro[cc[c]])
               + EntropyTerms(cc, chars \ {c}, n)

\* a validator mutant: normalises by log2(len(token)) first, which has no
\* value for the empty token
calculate_entropy_LogLen(tok) ==
    IF Len(tok) = 0 THEN [raised |-> "ValueError", value |-> 0]
    ELSE [raised |-> "",
          value |-> EntropyTerms(CharCount(tok), Range(tok), Len(tok)) \div Len(tok)]

\* calculate_entropy: the division count / len(token) runs once per distinct
\* character, so never for the empty token
calculate_entropy(tok) ==
    LET cc == CharCount(tok) IN
    IF DOMAIN cc # {} /\ Len(tok) = 0
    THEN [raised |-> "ZeroDivisionError", value |-> 0]
    ELSE [raised |-> "",
          value |-> IF DOMAIN cc = {} THEN 0
                    ELSE EntropyTerms(cc, DOMAIN cc, Len(tok)) \div Len(tok)]

NoPattern == <<>>

Result(passed, text, measured, threshold, pattern) ==
    [raised |-> "", passed |-> passed,
     message |-> [text |-> text, measured |-> measured,
                  threshold |-> threshold, pattern |-> pattern]]

Raised(what) ==
    [raised |-> what, passed |-> FALSE,
     message |-> [text |-> "", measured |-> 0, threshold |-> 0, pattern |-> NoPattern]]

check_token_length(tok, min_length) ==
    IF Len(tok) < min_length
    THEN Result(FALSE, "Token length is less than minimum required",
                Len(tok), min_length, NoPattern)
    ELSE Result(TRUE, "Token length is sufficient", Len(tok), min_length, NoPattern)

check_token_entropy(tok, min_ent) ==
    LET entropy == calculate_entropy(tok) IN
    IF entropy.raised # "" THEN Raised(entropy.raised)
    ELSE IF entropy.value < min_ent
    THEN Result(FALSE, "Token entropy is below minimum threshold",
                entropy.value, min_ent, NoPattern)
    ELSE Result(TRUE, "Token entropy is sufficient", entropy.value, min_ent, NoPattern)

\* re.search(r'[A-Z]', token) and the three others
has_uppercase(tok) == \E i \in DOMAIN tok : tok[i] \in Range(ascii_uppercase)
has_lowercase(tok) == \E i \in DOMAIN tok : tok[i] \in Range(ascii_lowercase)
has_digits(tok) == \E i \in DOMAIN tok : tok[i] \in Range(digits)
\* a mutant of has_special: the class [^A-Za-z], which counts digits too
has_special_NotLetter(tok) ==
    \E i \in DOMAIN tok :
        tok[i] \notin Range(ascii_uppercase) \union Range(ascii_lowercase)

has_special(tok) ==
    \E i \in DOMAIN tok :
        tok[i] \notin Range(ascii_uppercase) \union Range(ascii_lowercase)
                        \union Range(digits)

B2I(b) == IF b THEN 1 ELSE 0

char_types(tok) ==
    B2I(has_uppercase(tok)) + B2I(has_lowercase(tok))
      + B2I(has_digits(tok)) + B2I(has_special(tok))

check_character_diversity(tok) ==
    IF char_types(tok) < 3
    THEN Result(FALSE, "Token uses only few character types", char_types(tok), 3, NoPattern)
    ELSE Result(TRUE, "Token uses character types", char_types(tok), 3, NoPattern)

\* a mutant of RepeatHits: any later equal block counts, adjacent or not
RepeatHits_AnyOffset(tok) ==
    {h \in PyRange(1, Min(8, Len(tok) \div 2)) \X (0 .. Len(tok)) :
        /\ h[2] \in PyRange(0, Len(tok) - 2 * h[1] + 1)
        /\ \E j \in (h[2] + h[1]) .. (Len(tok) - h[1]) :
              PySlice(tok, h[2], h[2] + h[1]) = PySlice(tok, j, j + h[1])}

\* the (length, i) pairs at which the loops of lines 78-81 find
\* token[i:i+length] == token[i+length:i+2*length]
RepeatHits(tok) ==
    {h \in PyRange(1, Min(8, Len(tok) \div 2)) \X (0 .. Len(tok)) :
        /\ h[2] \in PyRange(0, Len(tok) - 2 * h[1] + 1)
        /\ PySlice(tok, h[2], h[2] + h[1])
             = PySlice(tok, h[2] + h[1], h[2] + 2 * h[1])}

\* the first hit in loop order: length ascending, then i ascending
FirstHit(hits) ==
    CHOOSE h \in hits :
        \A g \in hits : h[1] < g[1] \/ (h[1] = g[1] /\ h[2] <= g[2])

sequences == <<ascii_lowercase, ascii_uppercase, digits>>

\* a mutant of SequenceHits: the window wraps past the end of the alphabet
SequenceHits_Wrapping(tok) ==
    {h \in (1 .. 3) \X (0 .. 25) :
        /\ h[2] \in PyRange(0, Len(sequences[h[1]]))
        /\ PyContains([k \in 1 .. 4 |->
                         sequences[h[1]][((h[2] + k - 1) % Len(sequences[h[1]])) + 1]],
                      tok)}

\* the (seq, i) pairs at which the loops of lines 86-88 find seq[i:i+4] in token
SequenceHits(tok) ==
    {h \in (1 .. 3) \X (0 .. 25) :
        /\ h[2] \in PyRange(0, Len(sequences[h[1]]) - 3)
        /\ PyContains(PySlice(sequences[h[1]], h[2], h[2] + 4), tok)}

\* a mutant of check_common_patterns: the sequence scan runs first
check_common_patterns_SequenceFirst(tok) ==
    IF SequenceHits(tok) # {}
    THEN LET h == FirstHit(SequenceHits(tok)) IN
         Result(FALSE, "Token contains sequential pattern", 0, 0,
                PySlice(sequences[h[1]], h[2], h[2] + 4))
    ELSE IF RepeatHits(tok) # {}
    THEN LET h == FirstHit(RepeatHits(tok)) IN
         Result(FALSE, "Token contains repeating pattern", 0, 0,
                PySlice(tok, h[2], h[2] + h[1]))
    ELSE Result(TRUE, "No common patterns detected in token", 0, 0, NoPattern)

check_common_patterns(tok) ==
    IF RepeatHits(tok) # {}
    THEN LET h == FirstHit(RepeatHits(tok)) IN
         Result(FALSE, "Token contains repeating pattern", 0, 0,
                PySlice(tok, h[2], h[2] + h[1]))
    ELSE IF SequenceHits(tok) # {}
    THEN LET h == FirstHit(SequenceHits(tok)) IN
         Result(FALSE, "Token contains sequential pattern", 0, 0,
                PySlice(sequences[h[1]], h[2], h[2] + 4))
    ELSE Result(TRUE, "No common patterns detected in token", 0, 0, NoPattern)

----------------------------------------------------------------------------
(* verify_token_security.py: main *)

Bearer == <<"B", "e", "a", "r", "e", "r", " ">>

\* a mutant of extract_token_part: split(" ") without the maxsplit of 1
extract_token_part_SplitAll(bt) ==
    IF PyContains(<<" ">>, bt) /\ PyStartsWith(bt, Bearer)
    THEN PySplit1(PySplit1(bt, " ")[2], " ")[1]
    ELSE bt

\* line 141
extract_token_part(bt) ==
    IF PyContains(<<" ">>, bt) /\ PyStartsWith(bt, Bearer)
    THEN PySplit1(bt, " ")[2]
    ELSE bt

CheckNames ==
    <<"Token Length", "Token Entropy", "Character Diversity", "Common Patterns">>

CheckPositions ==
    <<"check_length", "check_entropy", "check_diversity", "check_patterns">>

\* the i-th element of the list literal of lines 147-152
RunCheck(i, tok, a) ==
    CASE i = 1 -> check_token_length(tok, a.min_length)
      [] i = 2 -> check_token_entropy(tok, a.min_entropy)
      [] i = 3 -> check_character_diversity(tok)
      [] i = 4 -> check_common_patterns(tok)

\* a mutant of after_check: the list stops at the first failed check
after_check_ShortCircuit(i, result) ==
    IF i = 4 \/ ~result.passed THEN "begin_report" ELSE CheckPositions[i + 1]

\* the elements of the list literal are evaluated one after the other,
\* whatever the earlier ones returned
after_check(i, result) ==
    IF i = 4 THEN "begin_report" ELSE CheckPositions[i + 1]

\* a mutant of report_update: the last check decides
report_update_LastWins(ap, passed) == passed

\* lines 160-161
report_update(ap, passed) == IF ~passed THEN FALSE ELSE ap

ExtractToken ==
    /\ pc = "extract"
    /\ token_part' = extract_token_part(bearer_token)
    /\ pc' = "check_length"
    /\ UNCHANGED <<bearer_token, args, checks, all_passed, idx, logged>>
    /\ UNCHANGED <<gen_vars, conc_vars, zendesk_vars, entropy_vars, auth_vars, config_vars>>

Check(i) ==
    /\ pc = CheckPositions[i]
    /\ LET result == RunCheck(i, token_part, args) IN
       IF result.raised # ""
       THEN /\ pc' = "raised"
            /\ UNCHANGED checks
       ELSE /\ checks' = Append(checks, [name |-> CheckNames[i],
                                         passed |-> result.passed,
                                         message |-> result.message])
            /\ pc' = after_check(i, result)
    /\ UNCHANGED <<bearer_token, args, token_part, all_passed, idx, logged>>
    /\ UNCHANGED <<gen_vars, conc_vars, zendesk_vars, entropy_vars, auth_vars, config_vars>>

BeginReport ==
    /\ pc = "begin_report"
    /\ all_passed' = TRUE
    /\ idx' = 1
    /\ pc' = "report"
    /\ UNCHANGED <<bearer_token, args, token_part, checks, logged>>
    /\ UNCHANGED <<gen_vars, conc_vars, zendesk_vars, entropy_vars, auth_vars, config_vars>>

ReportCheck ==
    /\ pc = "report"
    /\ idx <= Len(checks)
    /\ logged' = Append(logged, <<checks[idx].name, checks[idx].passed>>)
    /\ all_passed' = report_update(all_passed, checks[idx].passed)
    /\ idx' = idx + 1
    /\ UNCHANGED <<bearer_token, args, token_part, checks, pc>>
    /\ UNCHANGED <<gen_vars, conc_vars, zendesk_vars, entropy_vars, auth_vars, config_vars>>

Summary ==
    /\ pc = "report"
    /\ idx > Len(checks)
    /\ pc' = "done"
    /\ UNCHANGED <<bearer_token, args, token_part, checks, all_passed, idx, logged>>
    /\ UNCHANGED <<gen_vars, conc_vars, zendesk_vars, entropy_vars, auth_vars, config_vars>>

VerifyNext ==
    \/ ExtractToken
    \/ \E i \in 1 .. 4 : Check(i)
    \/ BeginReport
    \/ ReportCheck
    \/ Summary

----------------------------------------------------------------------------
(* The strings and policies the validator is run on *)

SeqsUpTo(S, n) == UNION {[1 .. k -> S] : k \in 0 .. n}

RepeatChars == {"a", "b"}
RunChars == {"a", "b", "c", "d", "e"}
SpaceChars == {"a", " "}

Ex_aa == <<"a", "a">>
Ex_abab == <<"a", "b", "a", "b">>
Ex_xyzxyz == <<"x", "y", "z", "x", "y", "z">>
Ex_xy12xy12AB == <<"x", "y", "1", "2", "x", "y", "1", "2", "A", "B">>
Ex_zzzabcdzzz == <<"z", "z", "z", "a", "b", "c", "d", "z", "z", "z">>
Ex_zzzabcezzz == <<"z", "z", "z", "a", "b", "c", "e", "z", "z", "z">>
Ex_xzyabcdzyx == <<"x", "z", "y", "a", "b", "c", "d", "z", "y", "x">>
Ex_xzyabcezyx == <<"x", "z", "y", "a", "b", "c", "e", "z", "y", "x">>
Ex_abXab == <<"a", "b", "X", "a", "b">>
Ex_wxyz == <<"w", "x", "y", "z">>
Ex_6789 == <<"6", "7", "8", "9">>
Ex_yzab == <<"y", "z", "a", "b">>
Ex_XYZA == <<"X", "Y", "Z", "A">>
Ex_8901 == <<"8", "9", "0", "1">>
Ex_dcba == <<"d", "c", "b", "a">>
Ex_abc == <<"a", "b", "c">>
Ex_Ab3 == <<"A", "b", "3", "!">>
Ex_abcd == <<"a", "b", "c", "d">>
Ex_block8 ==
    <<"a", "c", "e", "g", "i", "k", "m", "o", "a", "c", "e", "g", "i", "k", "m", "o">>
Ex_block8XY ==
    <<"a", "c", "e", "g", "i", "k", "m", "o", "a", "c", "e", "g", "i", "k", "m", "o",
      "X", "Y">>
Ex_good == <<"a", "B", "3", "!", "x", "Y", "7", "?">>
Ex_BearerOnly == <<"B", "e", "a", "r", "e", "r">>
Ex_bearer_ab == <<"b", "e", "a", "r", "e", "r", " ", "a", "b">>
Ex_Bear_er == <<"B", "e", "a", "r", " ", "e", "r">>
Ex_xBearer_y == <<"x", "B", "e", "a", "r", "e", "r", " ", "y">>

Examples ==
    {Ex_aa, Ex_abab, Ex_xyzxyz, Ex_xy12xy12AB, Ex_zzzabcdzzz, Ex_zzzabcezzz,
     Ex_xzyabcdzyx, Ex_xzyabcezyx, Ex_abXab, Ex_wxyz, Ex_6789, Ex_yzab, Ex_XYZA,
     Ex_8901, Ex_dcba, Ex_abc, Ex_Ab3, Ex_abcd, Ex_block8, Ex_block8XY, Ex_good,
     Ex_BearerOnly, Ex_bearer_ab, Ex_Bear_er, Ex_xBearer_y}

RawTokens ==
    SeqsUpTo(RepeatChars, MaxLen) \union SeqsUpTo(RunChars, MaxRunLen)
      \union SeqsUpTo(SpaceChars, MaxRunLen) \union Examples

\* "Bearer " followed by a token, which may itself hold spaces
BearerStrings ==
    {Bearer \o t : t \in SeqsUpTo(SpaceChars, MaxRunLen) \union Examples}

VerifyInputs == RawTokens \union BearerStrings

\* --min-length and --min-entropy: the defaults of lines 107-108 and a
\* policy short strings can meet
MinLengths == {4, 32}
MinEntropies == {1000000, 3500000}

GenIdle ==
    /\ length = 0
    /\ min_entropy = 0
    /\ token = <<>>
    /\ depth = 0
    /\ gpc = "idle"

VerifyInit ==
    /\ bearer_token \in VerifyInputs
    /\ args \in [min_length : MinLengths, min_entropy : MinEntropies]
    /\ token_part = <<>>
    /\ checks = <<>>
    /\ all_passed = FALSE
    /\ idx = 0
    /\ logged = <<>>
    /\ pc = "extract"
    /\ GenIdle
    /\ ConcIdle
    /\ ZendeskIdle
    /\ EntropyIdle
    /\ AuthIdle
    /\ ConfigIdle

SpecVerify == VerifyInit /\ [][VerifyNext]_vars

----------------------------------------------------------------------------
(* generate_secure_token.py: its own copies of the scoring functions *)

\* calculate_entropy, lines 29-48
gen_calculate_entropy(tok) ==
    IF Len(tok) = 0 THEN [raised |-> "", value |-> 0]
    ELSE LET cc == CharCount(tok) IN
         [raised |-> "", value |-> EntropyTerms(cc, DOMAIN cc, Len(tok)) \div Len(tok)]

gen_char_types(tok) ==
    B2I(\E i \in DOMAIN tok : tok[i] \in Range(ascii_uppercase))
      + B2I(\E i \in DOMAIN tok : tok[i] \in Range(ascii_lowercase))
      + B2I(\E i \in DOMAIN tok : tok[i] \in Range(digits))
      + B2I(\E i \in DOMAIN tok :
               tok[i] \notin Range(ascii_uppercase) \union Range(ascii_lowercase)
                               \union Range(digits))

\* check_character_diversity, lines 51-59
gen_check_character_diversity(tok) == gen_char_types(tok) >= 3

\* a mutant of gen_RepeatFound: the block length floor(len/2) is scanned too
gen_RepeatFound_Inclusive(tok) ==
    \E len \in PyRange(1, Min(8, Len(tok) \div 2) + 1) :
        \E i \in PyRange(0, Len(tok) - 2 * len + 1) :
            PySlice(tok, i, i + len) = PySlice(tok, i + len, i + 2 * len)

\* lines 65-69
gen_RepeatFound(tok) ==
    \E len \in PyRange(1, Min(8, Len(tok) \div 2)) :
        \E i \in PyRange(0, Len(tok) - 2 * len + 1) :
            PySlice(tok, i, i + len) = PySlice(tok, i + len, i + 2 * len)

\* lines 72-76
gen_SequenceFound(tok) ==
    \E k \in 1 .. 3 :
        \E i \in PyRange(0, Len(sequences[k]) - 3) :
            PyContains(PySlice(sequences[k], i, i + 4), tok)

\* a mutant of gen_check_common_patterns: the repetition scan is skipped
gen_check_common_patterns_NoRepeat(tok) == ~gen_SequenceFound(tok)

\* check_common_patterns, lines 62-78
gen_check_common_patterns(tok) ==
    IF gen_RepeatFound(tok) THEN FALSE
    ELSE IF gen_SequenceFound(tok) THEN FALSE
    ELSE TRUE

\* a mutant of gen_rejected: the entropy test is left out
gen_rejected_NoEntropy(entropy, min_ent, has_diversity, no_patterns) ==
    ~has_diversity \/ ~no_patterns

\* the condition of line 120
gen_rejected(entropy, min_ent, has_diversity, no_patterns) ==
    entropy < min_ent \/ ~has_diversity \/ ~no_patterns

----------------------------------------------------------------------------
(* generate_secure_token.py: generate_secure_token *)

\* the characters secrets.choice is taken to return, out of each set
SampleUpper == {"A", "B"}
SampleLower == {"a"}
SampleDigits == {"1"}
SampleSpecial == {"!"}
SampleAll == SampleUpper \union SampleLower \union SampleDigits \union SampleSpecial

\* a mutant of FillLen: range(length - 3)
FillLen_OffByOne(len) == IF len > 3 THEN len - 3 ELSE 0

\* range(length - 4) is empty when length <= 4
FillLen(len) == IF len > 4 THEN len - 4 ELSE 0

\* a mutant of Shuffled: the last position is filled with the first
\* character again instead of the one the permutation leaves for it
Shuffled_RepeatsFirst(token_chars, perm) ==
    [i \in 1 .. Len(token_chars) |->
        token_chars[perm[IF i = Len(token_chars) THEN 1 ELSE i]]]

\* secrets.SystemRandom().shuffle: the list in the order perm gives
Shuffled(token_chars, perm) ==
    [i \in 1 .. Len(token_chars) |-> token_chars[perm[i]]]

\* lines 99-112: four class characters, length - 4 more from all_chars, a
\* shuffle, and the join
GenDraw ==
    /\ gpc = "draw"
    /\ \E u \in SampleUpper, l \in SampleLower, d \in SampleDigits, s \in SampleSpecial :
         \E fill \in [1 .. FillLen(length) -> SampleAll] :
           \E perm \in Permutations(1 .. (4 + FillLen(length))) :
              token' = Shuffled(<<u, l, d, s>> \o fill, perm)
    /\ gpc' = "check"
    /\ UNCHANGED <<length, min_entropy, depth>>
    /\ UNCHANGED <<verify_vars, conc_vars, zendesk_vars, entropy_vars, auth_vars, config_vars>>

\* lines 115-123: the candidate is returned, or the function calls itself
\* with the same arguments (the new frame has no candidate yet); the call
\* fails with RecursionError once the stack is full
GenCheck ==
    /\ gpc = "check"
    /\ LET entropy == gen_calculate_entropy(token).value
           has_diversity == gen_check_character_diversity(token)
           no_patterns == gen_check_common_patterns(token)
       IN  IF gen_rejected(entropy, min_entropy, has_diversity, no_patterns)
           THEN IF depth + 1 >= StackLimit
                THEN gpc' = "RecursionError" /\ UNCHANGED <<depth, token>>
                ELSE gpc' = "draw" /\ depth' = depth + 1 /\ token' = <<>>
           ELSE gpc' = "returned" /\ UNCHANGED <<depth, token>>
    /\ UNCHANGED <<length, min_entropy>>
    /\ UNCHANGED <<verify_vars, conc_vars, zendesk_vars, entropy_vars, auth_vars, config_vars>>

GenNext == GenDraw \/ GenCheck

\* --min-entropy: 4.0 is the default of line 81
GenMinEntropies == {0, 2000000, 4000000}

VerifyIdle ==
    /\ bearer_token = <<>>
    /\ args = [min_length |-> 0, min_entropy |-> 0]
    /\ token_part = <<>>
    /\ checks = <<>>
    /\ all_passed = FALSE
    /\ idx = 0
    /\ logged = <<>>
    /\ pc = "idle"

GenInit ==
    /\ length \in 0 .. MaxLength
    /\ min_entropy \in GenMinEntropies
    /\ token = <<>>
    /\ depth = 0
    /\ gpc = "draw"
    /\ VerifyIdle
    /\ ConcIdle
    /\ ZendeskIdle
    /\ EntropyIdle
    /\ AuthIdle
    /\ ConfigIdle

SpecGenerate == GenInit /\ [][GenNext]_vars

----------------------------------------------------------------------------
(* Concurrent callers.  Each caller runs one call, generate_secure_token   *)
(* or the four checks of the validator, in a frame of its own: the         *)
(* functions have parameters and locals only; the module level of both     *)
(* scripts holds imports and definitions.  A step of the model is one      *)
(* statement group of one caller.                                           *)

Callers == {"t1", "t2"}

\* the uppercase character secrets.choice is taken to return to a caller
CallSample == {"A"}

\* the caller that started last
LastCaller == "t2"

\* a mutant of own_policy: the policy is kept at module level, where it
\* holds what the last caller put there
own_policy_ModuleLevel(cs, c) ==
    [min_length |-> cs[LastCaller].min_length, min_entropy |-> cs[LastCaller].min_entropy]

\* the parameters min_length and min_entropy of the running call
own_policy(cs, c) ==
    [min_length |-> cs[c].min_length, min_entropy |-> cs[c].min_entropy]

\* generate_secure_token, lines 99-112, in the frame of caller c
CallDraw(c) ==
    /\ calls[c].op = "generate"
    /\ calls[c].pc = "draw"
    /\ \E u \in CallSample, l \in SampleLower, d \in SampleDigits, s \in SampleSpecial :
         \E fill \in [1 .. FillLen(calls[c].length) -> {u, l}] :
           \E perm \in Permutations(1 .. (4 + FillLen(calls[c].length))) :
              calls' = [calls EXCEPT ![c].token = Shuffled(<<u, l, d, s>> \o fill, perm),
                                     ![c].pc = "check"]
    /\ UNCHANGED <<verify_vars, gen_vars, zendesk_vars, entropy_vars, auth_vars, config_vars>>

\* generate_secure_token, lines 115-123, in the frame of caller c
CallCheck(c) ==
    /\ calls[c].op = "generate"
    /\ calls[c].pc = "check"
    /\ LET tok == calls[c].token
           entropy == gen_calculate_entropy(tok).value
           has_diversity == gen_check_character_diversity(tok)
           no_patterns == gen_check_common_patterns(tok)
       IN  IF gen_rejected(entropy, own_policy(calls, c).min_entropy, has_diversity, no_patterns)
           THEN IF calls[c].depth + 1 >= StackLimit
                THEN calls' = [calls EXCEPT ![c].pc = "RecursionError"]
                ELSE calls' = [calls EXCEPT ![c].pc = "draw",
                                            ![c].depth = calls[c].depth + 1,
                                            ![c].token = <<>>]
           ELSE calls' = [calls EXCEPT ![c].pc = "returned"]
    /\ UNCHANGED <<verify_vars, gen_vars, zendesk_vars, entropy_vars, auth_vars, config_vars>>

\* the next of check_token_length, check_token_entropy,
\* check_character_diversity and check_common_patterns, called by caller c
\* on its own token and policy
CallEvaluate(c) ==
    /\ calls[c].op = "evaluate"
    /\ calls[c].pc = "evaluate"
    /\ LET i == Len(calls[c].results) + 1
           r == RunCheck(i, calls[c].token, own_policy(calls, c))
       IN  calls' = [calls EXCEPT ![c].results = Append(calls[c].results, r),
                                  ![c].pc = IF i = 4 THEN "done" ELSE "evaluate"]
    /\ UNCHANGED <<verify_vars, gen_vars, zendesk_vars, entropy_vars, auth_vars, config_vars>>

ConcNext == \E c \in Callers : CallDraw(c) \/ CallCheck(c) \/ CallEvaluate(c)

\* a generate call: of length 4, where every candidate is one character of
\* each class, or of length 5, where some candidates double a character
\* and are drawn again
GenerateCall(len, me) ==
    [op |-> "generate", length |-> len, min_length |-> 0, min_entropy |-> me,
     token |-> <<>>, depth |-> 0, pc |-> "draw", results |-> <<>>]

\* an evaluate call
EvaluateCalls ==
    {[op |-> "evaluate", length |-> 0, min_length |-> ml, min_entropy |-> me,
      token |-> t, depth |-> 0, pc |-> "evaluate", results |-> <<>>] :
        ml \in MinLengths, me \in MinEntropies, t \in {Ex_Ab3}}

\* the thresholds given to generate: one the candidates can meet, and the
\* default 4.0 of line 81
CallMinEntropies == {1500000, 4000000}

\* the second caller leaves the length-5 call to the first
ConcInit ==
    /\ calls \in [Callers -> EvaluateCalls
                     \union {GenerateCall(4, me) : me \in CallMinEntropies}
                     \union {GenerateCall(5, 1500000)}]
    /\ calls[LastCaller].length < 5
    /\ VerifyIdle
    /\ GenIdle
    /\ ZendeskIdle
    /\ EntropyIdle
    /\ AuthIdle
    /\ ConfigIdle

SpecConcurrent == ConcInit /\ [][ConcNext]_vars

----------------------------------------------------------------------------
(* zendesk_configuration.py: the Zendesk account and the REST helpers      *)
(*                                                                         *)
(* The account is, for each endpoint, the list of resources a GET of that  *)
(* endpoint returns.  A resource is [id, name, type, refs]: name stands    *)
(* for its "name" or "title", type for its "type" or "status_category",    *)
(* refs for the ids its payload mentions.  A Python dict is the sequence   *)
(* of its [key, value] items in insertion order.                           *)

\* class constants, lines 30-43
FIELD_AWS_SERVICE == "AWS Service"
FIELD_AWS_CATEGORY == "Category Code"
FIELD_AWS_SEVERITY == "Severity"
WEBHOOK_AWS_CREATE == "aws support - create"
WEBHOOK_AWS_UPDATE == "aws support - update"
WEBHOOK_AWS_SOLVED == "aws support - solved"
TRIGGER_CATEGORY == "AWS Support"
TRIGGER_AWS_CREATE == "create_ticket_trigger"
TRIGGER_AWS_UPDATE == "update_ticket_trigger"
TRIGGER_AWS_SOLVED == "solved_ticket_trigger"
TICKET_FORM_NAME == "AWS Support Request"

\* number of runs of main, one after the other
MaxRuns == 2
\* number of error responses Zendesk gives in all
MaxFaults == 1

\* Python's None; Zendesk ids are positive, so `if field_id:` tells them apart
None == 0

DictHas(d, k) == \E i \in DOMAIN d : d[i].key = k
DictGet(d, k) == d[CHOOSE i \in DOMAIN d : d[i].key = k].value
\* d[k] = v: a new key goes to the end, an old key keeps its place
DictSet(d, k, v) ==
    IF DictHas(d, k)
    THEN [i \in DOMAIN d |-> IF d[i].key = k THEN [key |-> k, value |-> v] ELSE d[i]]
    ELSE Append(d, [key |-> k, value |-> v])
\* list(d.values())
DictValues(d) == [i \in DOMAIN d |-> d[i].value]

\* resource[attribute]
Attr(resource, attribute) ==
    IF attribute \in {"type", "status_category"} THEN resource.type ELSE resource.name

\* what Zendesk may answer to a request
Responses == {"ok", "error_with_body", "error_empty_body"}

\* _make_request, lines 123-146: does the call raise?  A DELETE whose
\* response has no content returns {} before raise_for_status is reached
Raises(method, response) ==
    \/ response = "error_with_body"
    \/ response = "error_empty_body" /\ method # "DELETE"

\* a mutant of get_resource_id: only the first resource of the list is
\* looked at
get_resource_id_FirstOnly(resources, name, attribute) ==
    IF resources # <<>> /\ Attr(resources[1], attribute) = name
    THEN resources[1].id
    ELSE None

\* get_resource_id, lines 162-167, on the list the GET returned
get_resource_id(resources, name, attribute) ==
    LET hits == {i \in DOMAIN resources : Attr(resources[i], attribute) = name}
    IN  IF hits = {} THEN None
        ELSE resources[CHOOSE i \in hits : \A j \in hits : i <= j].id

RECURSIVE resource_id_mapping(_, _, _, _)
\* the loop of lines 189-191, from position i on, into mapping
resource_id_mapping(resources, names, attribute, i) ==
    IF i = 0 THEN <<>>
    ELSE LET before == resource_id_mapping(resources, names, attribute, i - 1)
         IN  IF Attr(resources[i], attribute) \in names
             THEN DictSet(before, Attr(resources[i], attribute), resources[i].id)
             ELSE before

\* get_resource_ids, lines 185-194, on the list the GET returned
get_resource_ids(resources, names, attribute) ==
    resource_id_mapping(resources, names, attribute, Len(resources))

\* the line _make_request adds to the record of requests
Request(r, method, type, name, id, response) ==
    [run |-> r, method |-> method, type |-> type, name |-> name, id |-> id,
     response |-> response]

\* Zendesk answers: an error response counts against MaxFaults
Answer(response) ==
    /\ response # "ok" => faults < MaxFaults
    /\ faults' = IF response = "ok" THEN faults ELSE faults + 1

\* the account after DELETE type/id was accepted
Deleted(type, id) ==
    [remote EXCEPT ![type] = SelectSeq(remote[type], LAMBDA x : x.id # id)]

\* the account after POST type was accepted
Created(type, name, kind, refs) ==
    [remote EXCEPT ![type] =
        Append(remote[type], [id |-> next_id, name |-> name, type |-> kind, refs |-> refs])]

----------------------------------------------------------------------------
(* zendesk_configuration.py: ZendeskConfigurator *)

\* the calls of setup_zendesk_configuration, lines 444-546, in order
SetupSteps ==
    << [call |-> "create_custom_field", type |-> "ticket_fields", name |-> FIELD_AWS_SERVICE, attribute |-> "title"],
       [call |-> "create_custom_field", type |-> "ticket_fields", name |-> FIELD_AWS_CATEGORY, attribute |-> "title"],
       [call |-> "create_custom_field", type |-> "ticket_fields", name |-> FIELD_AWS_SEVERITY, attribute |-> "title"],
       [call |-> "create_ticket_form", type |-> "ticket_forms", name |-> TICKET_FORM_NAME, attribute |-> "name"],
       [call |-> "create_webhook", type |-> "webhooks", name |-> WEBHOOK_AWS_CREATE, attribute |-> "name"],
       [call |-> "create_webhook", type |-> "webhooks", name |-> WEBHOOK_AWS_UPDATE, attribute |-> "name"],
       [call |-> "create_webhook", type |-> "webhooks", name |-> WEBHOOK_AWS_SOLVED, attribute |-> "name"],
       [call |-> "create_trigger_category", type |-> "trigger_categories", name |-> TRIGGER_CATEGORY, attribute |-> "name"],
       [call |-> "create_trigger", type |-> "triggers", name |-> TRIGGER_AWS_CREATE, attribute |-> "title"],
       [call |-> "create_trigger", type |-> "triggers", name |-> TRIGGER_AWS_UPDATE, attribute |-> "title"],
       [call |-> "get_resource_id", type |-> "custom_statuses", name |-> "solved", attribute |-> "status_category"],
       [call |-> "create_trigger", type |-> "triggers", name |-> TRIGGER_AWS_SOLVED, attribute |-> "title"] >>

\* the webhook a trigger notifies, lines 474, 505, 535
WebhookOf(title) ==
    CASE title = TRIGGER_AWS_CREATE -> WEBHOOK_AWS_CREATE
      [] title = TRIGGER_AWS_UPDATE -> WEBHOOK_AWS_UPDATE
      [] title = TRIGGER_AWS_SOLVED -> WEBHOOK_AWS_SOLVED

\* the ids the payload of the POST of step s mentions: lines 452, 401,
\* 474-482, 505, 526, 535
PayloadRefs(c, s) ==
    CASE s.call = "create_ticket_form"
            -> DictValues(c.system_field_ids) \o DictValues(c.custom_field_ids)
      [] s.call = "create_trigger"
            -> <<c.trigger_category_id, DictGet(c.webhook_ids, WebhookOf(s.name))>>
                 \o (CASE s.name = TRIGGER_AWS_CREATE -> DictValues(c.custom_field_ids)
                       [] s.name = TRIGGER_AWS_SOLVED -> <<c.solved_status_id>>
                       [] OTHER -> <<>>)
      [] OTHER -> <<>>

\* the "type" of the resource a POST of step s creates
PayloadType(s) == IF s.call = "create_custom_field" THEN "tagger" ELSE ""

\* the assignment each create_* makes once it has the id
Recorded(c, s, id) ==
    CASE s.call = "create_custom_field"
            -> [c EXCEPT !.custom_field_ids = DictSet(c.custom_field_ids, s.name, id)]
      [] s.call = "create_ticket_form" -> [c EXCEPT !.ticket_form_id = id]
      [] s.call = "create_webhook"
            -> [c EXCEPT !.webhook_ids = DictSet(c.webhook_ids, s.name, id)]
      [] s.call = "create_trigger_category" -> [c EXCEPT !.trigger_category_id = id]
      [] s.call = "create_trigger"
            -> [c EXCEPT !.trigger_ids = DictSet(c.trigger_ids, s.name, id)]
      [] s.call = "get_resource_id" -> [c EXCEPT !.solved_status_id = id]

\* the next call of setup, or the end of it
Advanced(c) ==
    IF c.step = Len(SetupSteps)
    THEN [c EXCEPT !.pc = "done"]
    ELSE [c EXCEPT !.pc = "get", !.step = c.step + 1]

\* a mutant of Failed: the exception is logged and the run goes on with
\* the next call
Failed_LogAndContinue(c) == Advanced(c)

\* the call raised: main ends with the exception
Failed(c) == [c EXCEPT !.pc = "failed"]

\* main runs are sequential: run r starts when the runs before it have ended
Turn(r) == \A q \in 1 .. (r - 1) : conf[q].pc \in {"done", "failed"}

\* __init__, lines 84-105: the ids start empty, and the system fields are
\* looked up with a GET straight away
Constructed(r) ==
    /\ conf[r].pc = "construct"
    /\ \E response \in Responses :
        /\ Answer(response)
        /\ http_log' = Append(http_log, Request(r, "GET", "ticket_fields", "", None, response))
        /\ conf' = [conf EXCEPT ![r] =
              IF Raises("GET", response) THEN Failed(conf[r])
              ELSE [conf[r] EXCEPT
                      !.system_field_ids =
                          get_resource_ids(remote["ticket_fields"], {"subject", "description"}, "type"),
                      !.step = 1,
                      !.pc = IF conf[r].action = "setup" THEN "get" ELSE "lookup"]]
    /\ UNCHANGED <<remote, next_id>>
    /\ UNCHANGED <<verify_vars, gen_vars, conc_vars, entropy_vars, auth_vars, config_vars>>

\* main, lines 690-711: one configurator per invocation of the script, and
\* in this specification the invocations follow one another
Construct(r) ==
    /\ Turn(r)
    /\ Constructed(r)

\* the get_resource_id call that opens each create_*, and the one of line
\* 521; `if field_id:` records a listed id and returns
SetupGet(r) ==
    /\ conf[r].pc = "get"
    /\ LET s == SetupSteps[conf[r].step] IN
       \E response \in Responses :
        /\ Answer(response)
        /\ http_log' = Append(http_log, Request(r, "GET", s.type, "", None, response))
        /\ conf' = [conf EXCEPT ![r] =
              IF Raises("GET", response) THEN Failed(conf[r])
              ELSE LET id == get_resource_id(remote[s.type], s.name, s.attribute)
                   IN  IF s.call = "get_resource_id" \/ id # None
                       THEN Advanced(Recorded(conf[r], s, id))
                       ELSE [conf[r] EXCEPT !.pc = "post"]]
    /\ UNCHANGED <<remote, next_id>>
    /\ UNCHANGED <<verify_vars, gen_vars, conc_vars, entropy_vars, auth_vars, config_vars>>

\* the POST of each create_*, and the id of the response recorded
SetupPost(r) ==
    /\ conf[r].pc = "post"
    /\ LET s == SetupSteps[conf[r].step] IN
       \E response \in Responses :
        /\ Answer(response)
        /\ http_log' = Append(http_log, Request(r, "POST", s.type, s.name,
                                 IF response = "ok" THEN next_id ELSE None, response))
        /\ IF Raises("POST", response)
           THEN /\ conf' = [conf EXCEPT ![r] = Failed(conf[r])]
                /\ UNCHANGED <<remote, next_id>>
           ELSE /\ remote' = Created(s.type, s.name, PayloadType(s), PayloadRefs(conf[r], s))
                /\ next_id' = next_id + 1
                /\ conf' = [conf EXCEPT ![r] = Advanced(Recorded(conf[r], s, next_id))]
    /\ UNCHANGED <<verify_vars, gen_vars, conc_vars, entropy_vars, auth_vars, config_vars>>

\* the look-ups of delete_zendesk_configuration, lines 562-598, in order
DeleteLookups ==
    << [field |-> "custom_field_ids", type |-> "ticket_fields", attribute |-> "title",
        names |-> {FIELD_AWS_SERVICE, FIELD_AWS_CATEGORY, FIELD_AWS_SEVERITY}],
       [field |-> "webhook_ids", type |-> "webhooks", attribute |-> "name",
        names |-> {WEBHOOK_AWS_CREATE, WEBHOOK_AWS_UPDATE, WEBHOOK_AWS_SOLVED}],
       [field |-> "trigger_category_id", type |-> "trigger_categories", attribute |-> "name",
        names |-> {TRIGGER_CATEGORY}],
       [field |-> "trigger_ids", type |-> "triggers", attribute |-> "title",
        names |-> {TRIGGER_AWS_CREATE, TRIGGER_AWS_UPDATE, TRIGGER_AWS_SOLVED}],
       [field |-> "ticket_form_id", type |-> "ticket_forms", attribute |-> "name",
        names |-> {TICKET_FORM_NAME}] >>

\* `if not self.x:` of lines 562, 570, 578, 585, 593
NotSet(c, field) ==
    CASE field = "custom_field_ids" -> c.custom_field_ids = <<>>
      [] field = "webhook_ids" -> c.webhook_ids = <<>>
      [] field = "trigger_category_id" -> c.trigger_category_id = None
      [] field = "trigger_ids" -> c.trigger_ids = <<>>
      [] field = "ticket_form_id" -> c.ticket_form_id = None

\* the assignment of lines 563, 571, 579, 586, 594
LookedUp(c, l, resources) ==
    CASE l.field = "custom_field_ids"
            -> [c EXCEPT !.custom_field_ids = get_resource_ids(resources, l.names, l.attribute)]
      [] l.field = "webhook_ids"
            -> [c EXCEPT !.webhook_ids = get_resource_ids(resources, l.names, l.attribute)]
      [] l.field = "trigger_category_id"
            -> [c EXCEPT !.trigger_category_id =
                    get_resource_id(resources, TRIGGER_CATEGORY, l.attribute)]
      [] l.field = "trigger_ids"
            -> [c EXCEPT !.trigger_ids = get_resource_ids(resources, l.names, l.attribute)]
      [] l.field = "ticket_form_id"
            -> [c EXCEPT !.ticket_form_id =
                    get_resource_id(resources, TICKET_FORM_NAME, l.attribute)]

\* the delete_resource calls of lines 600-617, in order: triggers, trigger
\* category, webhooks, ticket form, custom fields
DeleteQueue(c) ==
    [i \in DOMAIN c.trigger_ids |-> [type |-> "triggers", id |-> c.trigger_ids[i].value]]
      \o (IF c.trigger_category_id # None
          THEN <<[type |-> "trigger_categories", id |-> c.trigger_category_id]>>
          ELSE <<>>)
      \o [i \in DOMAIN c.webhook_ids |-> [type |-> "webhooks", id |-> c.webhook_ids[i].value]]
      \o (IF c.ticket_form_id # None
          THEN <<[type |-> "ticket_forms", id |-> c.ticket_form_id]>>
          ELSE <<>>)
      \o [i \in DOMAIN c.custom_field_ids |->
             [type |-> "ticket_fields", id |-> c.custom_field_ids[i].value]]

\* after the last look-up the deletions begin; with nothing to delete the
\* method returns
LookupAdvanced(c) ==
    IF c.step < Len(DeleteLookups) THEN [c EXCEPT !.step = c.step + 1]
    ELSE IF DeleteQueue(c) = <<>> THEN [c EXCEPT !.pc = "done"]
    ELSE [c EXCEPT !.pc = "delete", !.step = 1]

\* one look-up of delete_zendesk_configuration
DeleteLookup(r) ==
    /\ conf[r].pc = "lookup"
    /\ LET l == DeleteLookups[conf[r].step] IN
       IF ~NotSet(conf[r], l.field)
       THEN /\ conf' = [conf EXCEPT ![r] = LookupAdvanced(conf[r])]
            /\ UNCHANGED <<http_log, faults>>
       ELSE \E response \in Responses :
             /\ Answer(response)
             /\ http_log' = Append(http_log, Request(r, "GET", l.type, "", None, response))
             /\ conf' = [conf EXCEPT ![r] =
                   IF Raises("GET", response) THEN Failed(conf[r])
                   ELSE LookupAdvanced(LookedUp(conf[r], l, remote[l.type]))]
    /\ UNCHANGED <<remote, next_id>>
    /\ UNCHANGED <<verify_vars, gen_vars, conc_vars, entropy_vars, auth_vars, config_vars>>

\* delete_resource, lines 196-211, for the next id of the loops of lines
\* 600-617; Zendesk removes the resource when it accepts the request
DeleteResource(r) ==
    /\ conf[r].pc = "delete"
    /\ LET queue == DeleteQueue(conf[r])
           d == queue[conf[r].step]
       IN
       \E response \in Responses :
        /\ Answer(response)
        /\ http_log' = Append(http_log, Request(r, "DELETE", d.type, "", d.id, response))
        /\ remote' = IF response = "ok" THEN Deleted(d.type, d.id) ELSE remote
        /\ conf' = [conf EXCEPT ![r] =
              IF Raises("DELETE", response) THEN Failed(conf[r])
              ELSE IF conf[r].step = Len(queue) THEN [conf[r] EXCEPT !.pc = "done"]
              ELSE [conf[r] EXCEPT !.step = conf[r].step + 1]]
    /\ UNCHANGED next_id
    /\ UNCHANGED <<verify_vars, gen_vars, conc_vars, entropy_vars, auth_vars, config_vars>>

ZendeskNext ==
    \E r \in 1 .. MaxRuns :
        Construct(r) \/ SetupGet(r) \/ SetupPost(r) \/ DeleteLookup(r) \/ DeleteResource(r)

\* the account before the first run: the system fields, the statuses, and
\* resources of other integrations
Account ==
    [ticket_fields |->
        << [id |-> 1, name |-> "Subject", type |-> "subject", refs |-> <<>>],
           [id |-> 2, name |-> "Description", type |-> "description", refs |-> <<>>],
           [id |-> 3, name |-> "Order number", type |-> "text", refs |-> <<>>] >>,
     ticket_forms |->
        << [id |-> 4, name |-> "Default Ticket Form", type |-> "", refs |-> <<1, 2>>] >>,
     webhooks |->
        << [id |-> 5, name |-> "pager", type |-> "", refs |-> <<>>] >>,
     trigger_categories |->
        << [id |-> 6, name |-> "Notifications", type |-> "", refs |-> <<>>] >>,
     triggers |->
        << [id |-> 7, name |-> "Notify requester", type |-> "", refs |-> <<6, 5>>] >>,
     custom_statuses |->
        << [id |-> 8, name |-> "Open", type |-> "open", refs |-> <<>>],
           [id |-> 9, name |-> "Solved", type |-> "solved", refs |-> <<>>] >>]

\* the id after the ones of Account
FirstNewId == 10

\* main, lines 690-711: a configurator is constructed and args.action
\* selects setup or delete
NewConfigurator(action) ==
    [action |-> action, pc |-> "construct", step |-> 0,
     system_field_ids |-> <<>>, custom_field_ids |-> <<>>, webhook_ids |-> <<>>,
     trigger_ids |-> <<>>, ticket_form_id |-> None, trigger_category_id |-> None,
     solved_status_id |-> None]

ZendeskInit ==
    /\ remote = Account
    /\ next_id = FirstNewId
    /\ http_log = <<>>
    /\ conf \in [1 .. MaxRuns -> {NewConfigurator(a) : a \in {"setup", "delete"}}]
    /\ faults = 0
    /\ VerifyIdle
    /\ GenIdle
    /\ ConcIdle
    /\ EntropyIdle
    /\ AuthIdle
    /\ ConfigIdle

SpecZendesk == ZendeskInit /\ [][ZendeskNext]_vars

(***************************************************************************)
(* Two invocations of the script with action "setup" that run at the same  *)
(* time against one account.  Each request is one step, and the requests   *)
(* of the two runs interleave; the script takes no lock and the requests   *)
(* carry no precondition (lines 107-146).  The exploration is bounded by   *)
(* the number of times the account turns from serving one run to serving   *)
(* the other.                                                              *)
(***************************************************************************)
MaxSwitches == 2

Parallel == {1, 2}

\* the number of places in the log where the request of one run follows a
\* request of the other
Switches(log) ==
    Cardinality({i \in 1 .. (Len(log) - 1) : log[i].run # log[i + 1].run})

Scheduled(r) ==
    Switches(Append(http_log, [run |-> r])) <= MaxSwitches

ParallelConstruct(r) ==
    /\ Scheduled(r)
    /\ Constructed(r)

ParallelGet(r) ==
    /\ Scheduled(r)
    /\ SetupGet(r)

ParallelPost(r) ==
    /\ Scheduled(r)
    /\ SetupPost(r)

ParallelNext ==
    \E r \in Parallel :
        \/ ParallelConstruct(r)
        \/ ParallelGet(r)
        \/ ParallelPost(r)

ParallelInit ==
    /\ remote = Account
    /\ next_id = FirstNewId
    /\ http_log = <<>>
    /\ conf = [r \in Parallel |-> NewConfigurator("setup")]
    /\ faults = 0
    /\ VerifyIdle
    /\ GenIdle
    /\ ConcIdle
    /\ EntropyIdle
    /\ AuthIdle
    /\ ConfigIdle

SpecParallelSetup == ParallelInit /\ [][ParallelNext]_vars

----------------------------------------------------------------------------
(***************************************************************************)
(* lambdas/api_authorizer/handler.py.  A Python value is a record of its   *)
(* type, its characters when it is a str and its items when it is a dict.  *)
(***************************************************************************)
Str(chars) == [type |-> "str", chars |-> chars, items |-> <<>>]

PyNone == [type |-> "NoneType", chars |-> <<>>, items |-> <<>>]

PyDict(items) == [type |-> "dict", chars |-> <<>>, items |-> items]

\* a == b of Python, for str, None and dict operands
PyEq(a, b) == a.type = b.type /\ a.chars = b.chars /\ a.items = b.items

\* d.get(k, default)
PyGet(d, k, default) == IF DictHas(d.items, k) THEN DictGet(d.items, k) ELSE default

\* line 10: token == "Bearer " + API_TOKEN, ignoring everything before the
\* secret
is_auth_EndsWith(tok, secret) ==
    /\ tok.type = "str"
    /\ Len(tok.chars) >= Len(secret.chars)
    /\ SubSeq(tok.chars, Len(tok.chars) - Len(secret.chars) + 1, Len(tok.chars)) = secret.chars

\* line 10: token == "Bearer " + API_TOKEN
is_auth_of(tok, secret) == PyEq(tok, Str(Bearer \o secret.chars))

\* what the handler returns
Returned(kind, authorized) == [type |-> kind, isAuthorized |-> authorized]

\* line 9: event['headers'].get('authorization', ''); a KeyError when the
\* event has no 'headers', an AttributeError when the headers are not a
\* dict, both caught at line 12 and answered with None at line 14
GetToken ==
    /\ apc = "try"
    /\ IF ~DictHas(event.items, "headers") \/ DictGet(event.items, "headers").type # "dict"
       THEN /\ returned' = Returned("NoneType", FALSE)
            /\ apc' = "return"
            /\ UNCHANGED auth_token
       ELSE /\ auth_token' = PyGet(DictGet(event.items, "headers"), "authorization", Str(<<>>))
            /\ apc' = "compare"
            /\ UNCHANGED returned
    /\ UNCHANGED <<API_TOKEN, event, is_auth>>
    /\ UNCHANGED <<verify_vars, gen_vars, conc_vars, zendesk_vars, entropy_vars, config_vars>>

\* line 10; str + a value that is not a str is a TypeError, caught at
\* line 12
Compare ==
    /\ apc = "compare"
    /\ IF API_TOKEN.type # "str"
       THEN /\ returned' = Returned("NoneType", FALSE)
            /\ apc' = "return"
            /\ UNCHANGED is_auth
       ELSE /\ is_auth' = is_auth_of(auth_token, API_TOKEN)
            /\ apc' = "result"
            /\ UNCHANGED returned
    /\ UNCHANGED <<API_TOKEN, event, auth_token>>
    /\ UNCHANGED <<verify_vars, gen_vars, conc_vars, zendesk_vars, entropy_vars, config_vars>>

\* line 11
Return ==
    /\ apc = "result"
    /\ returned' = Returned("dict", is_auth)
    /\ apc' = "return"
    /\ UNCHANGED <<API_TOKEN, event, auth_token, is_auth>>
    /\ UNCHANGED <<verify_vars, gen_vars, conc_vars, zendesk_vars, entropy_vars, config_vars>>

AuthNext == GetToken \/ Compare \/ Return

\* the secrets the authorizer is loaded with
Secrets == {<<"s">>, <<"s", "k">>, <<"k", "s">>}

\* the values an 'authorization' header is given
HeaderValues ==
    {PyNone, Str(<<>>), Str(Bearer)}
        \union {Str(t) : t \in Secrets}
        \union {Str(Bearer \o t) : t \in Secrets}
        \union {Str(Bearer \o t \o <<" ">>) : t \in Secrets}
        \union {Str(<<" ">> \o Bearer \o t) : t \in Secrets}
        \union {Str(<<"b", "e", "a", "r", "e", "r", " ">> \o t) : t \in Secrets}
        \union {Str(<<"B", "e", "a", "r", "e", "r">> \o t) : t \in Secrets}

Host == [key |-> "host", value |-> Str(<<"h">>)]

\* the headers of an event: none, or a dict with or without the header, whose
\* name may be written in another case
Headers ==
    {PyNone, PyDict(<<>>), PyDict(<<Host>>)}
        \union {PyDict(<<[key |-> k, value |-> v]>>) :
                    k \in {"authorization", "Authorization"}, v \in HeaderValues}
        \union {PyDict(<<Host, [key |-> "authorization", value |-> v]>>) : v \in HeaderValues}

RawPath == [key |-> "rawPath", value |-> Str(<<"/">>)]

Events ==
    {PyDict(<<>>), PyDict(<<RawPath>>)}
        \union {PyDict(<<RawPath, [key |-> "headers", value |-> h]>>) : h \in Headers}

\* line 5 has run, and the handler is invoked with an event
AuthInit ==
    /\ API_TOKEN \in {Str(t) : t \in Secrets}
    /\ event \in Events
    /\ auth_token = PyNone
    /\ is_auth = FALSE
    /\ returned = Returned("unset", FALSE)
    /\ apc = "try"
    /\ VerifyIdle
    /\ GenIdle
    /\ ConcIdle
    /\ ZendeskIdle
    /\ EntropyIdle
    /\ ConfigIdle

SpecAuthorizer == AuthInit /\ [][AuthNext]_vars

----------------------------------------------------------------------------
(***************************************************************************)
(* generate_secure_token.update_config_file, lines 126-144, and the lines  *)
(* of main that call it.  A file is its access mode and the JSON text it   *)
(* holds: the members of an object as written, in order and with the       *)
(* values as written, or an array, or text that is not JSON.  A Python     *)
(* value is written as its repr.                                           *)
(***************************************************************************)
Doc(form, members) == [form |-> form, members |-> members]

File(mode, doc) == [mode |-> mode, doc |-> doc]

\* the Python value json.load gives for a JSON value
Loads(lexeme) ==
    CASE lexeme = "\"old\"" -> "'old'"
      [] lexeme = "\"T1\"" -> "'T1'"
      [] lexeme = "\"T2\"" -> "'T2'"
      [] lexeme = "1.50" -> "1.5"
      [] lexeme = "1.5" -> "1.5"
      [] lexeme = "1e400" -> "inf"
      [] lexeme = "Infinity" -> "inf"

\* the JSON value json.dump writes for a Python value
Dumps(value) ==
    CASE value = "'old'" -> "\"old\""
      [] value = "'T1'" -> "\"T1\""
      [] value = "'T2'" -> "\"T2\""
      [] value = "1.5" -> "1.5"
      [] value = "inf" -> "Infinity"

\* the dict json.load builds from the members of an object: a repeated key
\* keeps its first place and takes its last value
RECURSIVE object_pairs(_)
object_pairs(members) ==
    IF members = <<>> THEN <<>>
    ELSE LET last == members[Len(members)]
         IN  DictSet(object_pairs(SubSeq(members, 1, Len(members) - 1)),
                     last.key, Loads(last.value))

\* json.load(f), line 133, of text that is JSON
json_load(doc) ==
    IF doc.form = "object"
    THEN [type |-> "dict", items |-> object_pairs(doc.members)]
    ELSE [type |-> "list", items |-> <<>>]

\* json.dump(config, f, indent=2), line 140
json_dump(cfg) ==
    Doc("object", [i \in DOMAIN cfg.items |->
                     [key |-> cfg.items[i].key, value |-> Dumps(cfg.items[i].value)]])

\* line 136, replacing the whole dict
set_bearer_token_Only(cfg, tok) ==
    [cfg EXCEPT !.items = <<[key |-> "bearer_token", value |-> tok]>>]

\* line 136: config['bearer_token'] = token
set_bearer_token(cfg, tok) ==
    [cfg EXCEPT !.items = DictSet(cfg.items, "bearer_token", tok)]

\* the pairs update_config_file returns, lines 142 and 144
Updated == [success |-> TRUE, error |-> "None"]
NotUpdated == [success |-> FALSE, error |-> "Error updating configuration"]

\* lines 132-133: open(config_path, 'r') raises OSError for a file that is
\* missing or unreadable, and json.load raises for text that is not JSON;
\* line 143 catches both
ReadConfig ==
    /\ upc = "read"
    /\ IF config_file.mode \in {"missing", "unreadable"} \/ config_file.doc.form = "garbage"
       THEN /\ update_result' = NotUpdated
            /\ upc' = "returned"
            /\ UNCHANGED config
       ELSE /\ config' = json_load(config_file.doc)
            /\ upc' = "assign"
            /\ UNCHANGED update_result
    /\ UNCHANGED <<config_file, file_at_entry, new_token, exit_code>>
    /\ UNCHANGED <<verify_vars, gen_vars, conc_vars, zendesk_vars, entropy_vars, auth_vars>>

\* line 136: a TypeError when the JSON text is not an object
AssignToken ==
    /\ upc = "assign"
    /\ IF config.type # "dict"
       THEN /\ update_result' = NotUpdated
            /\ upc' = "returned"
            /\ UNCHANGED config
       ELSE /\ config' = set_bearer_token(config, new_token)
            /\ upc' = "write"
            /\ UNCHANGED update_result
    /\ UNCHANGED <<config_file, file_at_entry, new_token, exit_code>>
    /\ UNCHANGED <<verify_vars, gen_vars, conc_vars, zendesk_vars, entropy_vars, auth_vars>>

\* lines 139-142: open(config_path, 'w') raises for a file that may not be
\* written and otherwise empties it; json.dump then writes the text, or
\* fails part-way (a full disk) and leaves text that is not JSON
WriteConfig ==
    /\ upc = "write"
    /\ IF config_file.mode = "readonly"
       THEN /\ update_result' = NotUpdated
            /\ UNCHANGED config_file
       ELSE \E written \in BOOLEAN :
              IF written
              THEN /\ config_file' = File(config_file.mode, json_dump(config))
                   /\ update_result' = Updated
              ELSE /\ config_file' = File(config_file.mode, Doc("garbage", <<>>))
                   /\ update_result' = NotUpdated
    /\ upc' = "returned"
    /\ UNCHANGED <<file_at_entry, new_token, config, exit_code>>
    /\ UNCHANGED <<verify_vars, gen_vars, conc_vars, zendesk_vars, entropy_vars, auth_vars>>

\* main, lines 173-178: sys.exit(1) when the update failed
MainExit ==
    /\ upc = "returned"
    /\ exit_code' = IF update_result.success THEN 0 ELSE 1
    /\ upc' = "exit"
    /\ UNCHANGED <<config_file, file_at_entry, new_token, config, update_result>>
    /\ UNCHANGED <<verify_vars, gen_vars, conc_vars, zendesk_vars, entropy_vars, auth_vars>>

ConfigNext == ReadConfig \/ AssignToken \/ WriteConfig \/ MainExit

MaxMembers == 2

\* the members a configuration file is written with
Members ==
    {[key |-> k, value |-> v] :
        k \in {"bearer_token", "region"}, v \in {"\"old\"", "1.50", "1e400"}}

MemberLists ==
    UNION {[1 .. n -> Members] : n \in 0 .. MaxMembers}

Docs ==
    {Doc("garbage", <<>>), Doc("array", <<>>)}
        \union {Doc("object", m) : m \in MemberLists}

Files ==
    {File("missing", Doc("garbage", <<>>))}
        \union {File(mode, doc) : mode \in {"unreadable", "readonly", "ok"}, doc \in Docs}

\* main has generated the token and calls update_config_file, line 172
ConfigInit ==
    /\ config_file \in Files
    /\ file_at_entry = config_file
    /\ new_token \in {"'T1'", "'T2'"}
    /\ config = [type |-> "unset", items |-> <<>>]
    /\ update_result = [success |-> FALSE, error |-> "unset"]
    /\ exit_code = 0
    /\ upc = "read"
    /\ VerifyIdle
    /\ GenIdle
    /\ ConcIdle
    /\ ZendeskIdle
    /\ EntropyIdle
    /\ AuthIdle

SpecConfigFile == ConfigInit /\ [][ConfigNext]_vars

----------------------------------------------------------------------------
(* IEEE 754 double precision, for calculate_entropy                         *)
(*                                                                          *)
(* A natural number is the sequence of its binary digits, lowest first.     *)
(* A positive double is [m, e]: a 53-digit number m whose highest digit is  *)
(* 1, and the power of two e its lowest digit counts; its value is          *)
(* m * 2^e.  Zero is [m |-> <<>>, e |-> 0].  Every operation rounds to      *)
(* nearest, ties to even.  calculate_entropy meets neither subnormal nor    *)
(* infinite values.                                                         *)

\* largest number of distinct characters in a string given to
\* calculate_entropy
MaxDistinct == 12

Zeros(n) == [i \in 1 .. n |-> 0]

\* the w lowest binary digits of x
BitsOf(x, w) == [i \in 1 .. w |-> (x \div 2 ^ (i - 1)) % 2]

\* without leading zeros
Trim(b) ==
    LET ones == {i \in DOMAIN b : b[i] = 1}
    IN  IF ones = {} THEN <<>>
        ELSE SubSeq(b, 1, CHOOSE i \in ones : \A j \in ones : j <= i)

Digit(b, i) == IF i <= Len(b) THEN b[i] ELSE 0

\* For addition and multiplication a number is cut into limbs of ten
\* binary digits, lowest first.
Limb(a, j) == IF j \in DOMAIN a THEN a[j] ELSE 0

\* the limb made of the ten digits of b after position o
LimbAt(b, o) ==
    Digit(b, o + 1) + 2 * Digit(b, o + 2) + 4 * Digit(b, o + 3)
      + 8 * Digit(b, o + 4) + 16 * Digit(b, o + 5) + 32 * Digit(b, o + 6)
      + 64 * Digit(b, o + 7) + 128 * Digit(b, o + 8) + 256 * Digit(b, o + 9)
      + 512 * Digit(b, o + 10)

ToLimbs(b) == [j \in 1 .. ((Len(b) + 9) \div 10) |-> LimbAt(b, 10 * (j - 1))]

ToBits(a) ==
    Trim([i \in 1 .. (10 * Len(a)) |-> (a[(i - 1) \div 10 + 1] \div 2 ^ ((i - 1) % 10)) % 2])

RECURSIVE Carried(_, _, _)
\* the limbs of the number whose columns, from column i on, are cols, with
\* carry coming in
Carried(cols, i, carry) ==
    IF i > Len(cols)
    THEN IF carry = 0 THEN <<>>
         ELSE <<carry % 1024>> \o Carried(cols, i, carry \div 1024)
    ELSE <<(cols[i] + carry) % 1024>> \o Carried(cols, i + 1, (cols[i] + carry) \div 1024)

\* a + b
BAdd(a, b) ==
    LET la == ToLimbs(a)
        lb == ToLimbs(b)
        n == IF Len(la) > Len(lb) THEN Len(la) ELSE Len(lb)
    IN  ToBits(Carried([j \in 1 .. n |-> Limb(la, j) + Limb(lb, j)], 1, 0))

\* a * b, for a of at most 60 digits
BMul(a, b) ==
    LET la == ToLimbs(a)
        lb == ToLimbs(b)
    IN  ToBits(Carried([k \in 1 .. (Len(la) + Len(lb)) |->
                          Limb(la, 1) * Limb(lb, k) + Limb(la, 2) * Limb(lb, k - 1)
                            + Limb(la, 3) * Limb(lb, k - 2) + Limb(la, 4) * Limb(lb, k - 3)
                            + Limb(la, 5) * Limb(lb, k - 4) + Limb(la, 6) * Limb(lb, k - 5)],
                       1, 0))

\* a < b, for numbers without leading zeros
BLess(a, b) ==
    \/ Len(a) < Len(b)
    \/ /\ Len(a) = Len(b)
       /\ \E i \in DOMAIN a :
            /\ a[i] < b[i]
            /\ \A j \in (i + 1) .. Len(a) : a[j] = b[j]

FZero == [m |-> <<>>, e |-> 0]

\* 1.0
FOne == [m |-> Zeros(52) \o <<1>>, e |-> -52]

\* the double nearest to b * 2^e, for b > 0 without leading zeros; of two
\* nearest doubles the one with an even m
Round53(b, e) ==
    IF Len(b) <= 53
    THEN [m |-> Zeros(53 - Len(b)) \o b, e |-> e - (53 - Len(b))]
    ELSE LET d == Len(b) - 53
             kept == SubSeq(b, d + 1, Len(b))
             sticky == \E i \in 1 .. (d - 1) : b[i] = 1
             up == b[d] = 1 /\ (sticky \/ kept[1] = 1)
             r == IF up THEN BAdd(kept, <<1>>) ELSE kept
         IN  IF Len(r) = 54
             THEN [m |-> SubSeq(r, 2, 54), e |-> e + d + 1]
             ELSE [m |-> r, e |-> e + d]

\* x + y, for x, y >= 0
FAdd(x, y) ==
    IF x.m = <<>> THEN y
    ELSE IF y.m = <<>> THEN x
    ELSE LET e0 == Min(x.e, y.e)
         IN  Round53(Trim(BAdd(Zeros(x.e - e0) \o x.m, Zeros(y.e - e0) \o y.m)), e0)

\* x * y, for x, y >= 0
FMul(x, y) ==
    IF x.m = <<>> \/ y.m = <<>> THEN FZero
    ELSE Round53(Trim(BMul(x.m, y.m)), x.e + y.e)

\* x < y, for x, y >= 0
FLess(x, y) ==
    IF y.m = <<>> THEN FALSE
    ELSE IF x.m = <<>> THEN TRUE
    ELSE x.e < y.e \/ (x.e = y.e /\ BLess(x.m, y.m))

RECURSIVE DivFrom(_, _, _)
\* long division: k more limbs of r / n, lowest first, and the remainder
DivFrom(r, n, k) ==
    IF k = 0 THEN [limbs |-> <<>>, rem |-> r]
    ELSE LET rest == DivFrom((r * 1024) % n, n, k - 1)
         IN  [limbs |-> Append(rest.limbs, (r * 1024) \div n), rem |-> rest.rem]

\* count / len(token) for integers 0 < c <= n < 64: the quotient to 60
\* binary places, with one more digit that tells whether anything is left
FDiv(c, n) ==
    IF c = n THEN FOne
    ELSE LET q == DivFrom(c, n, 6)
         IN  Round53(<<IF q.rem = 0 THEN 0 ELSE 1>> \o ToBits(q.limbs), -61)

\* the double with the 26 high digits hi and the 27 low digits lo of m
Double(t) ==
    IF t[1] = 0 THEN FZero
    ELSE [m |-> BitsOf(t[2], 27) \o BitsOf(t[1], 26), e |-> t[3]]

\* -math.log2(c / n), as CPython returns it on IEEE 754 doubles, for
\* 1 <= c <= n <= 14: row n, column c, as <<hi, lo, e>>
Log2Table ==
    <<
       << <<0, 0, 0>> >>,
       << <<33554432, 0, -52>>, <<0, 0, 0>> >>,
       << <<53182516, 60800361, -52>>, <<39256168, 121600722, -53>>, <<0, 0, 0>> >>,
       << <<33554432, 0, -51>>, <<33554432, 0, -52>>, <<55705390, 25234014, -54>>, <<0, 0, 0>> >>,
       << <<38955489, 24748913, -51>>, <<44356546, 49497826, -52>>, <<49456923, 111612661, -53>>, <<43208457, 63773578, -54>>, <<0, 0, 0>> >>,
       << <<43368474, 30400180, -51>>, <<53182516, 60800361, -52>>, <<33554432, 0, -52>>, <<39256168, 121600722, -53>>, <<35303880, 45210134, -54>>, <<0, 0, 0>> >>,
       << <<47099599, 122946605, -51>>, <<60644767, 111675482, -52>>, <<41016683, 50875122, -52>>, <<54180671, 89133236, -53>>, <<65152885, 114492891, -54>>, <<59698011, 4347789, -55>>, <<0, 0, 0>> >>,
       << <<50331648, 0, -51>>, <<33554432, 0, -51>>, <<47480779, 73417368, -52>>, <<33554432, 0, -52>>, <<45504635, 35222075, -53>>, <<55705390, 25234014, -54>>, <<51712769, 46120242, -55>>, <<0, 0, 0>> >>,
       << <<53182516, 60800361, -51>>, <<36405300, 60800361, -51>>, <<53182516, 60800361, -52>>, <<39256168, 121600721, -52>>, <<56908109, 9988060, -53>>, <<39256168, 121600722, -53>>, <<48663332, 39700957, -54>>, <<45613895, 33281675, -55>>, <<0, 0, 0>> >>,
       << <<55732705, 24748913, -51>>, <<38955489, 24748913, -51>>, <<58282893, 122915195, -52>>, <<44356546, 49497826, -52>>, <<33554432, 0, -52>>, <<49456923, 111612661, -53>>, <<34532421, 9862419, -53>>, <<43208457, 63773578, -54>>, <<40803019, 94265485, -55>>, <<0, 0, 0>> >>,
       << <<58039631, 67525954, -51>>, <<41262415, 67525954, -51>>, <<62896746, 74251548, -52>>, <<48970399, 834180, -52>>, <<38168284, 85554081, -52>>, <<58684629, 14285368, -53>>, <<43760126, 46752852, -53>>, <<61663868, 3336718, -54>>, <<38856920, 53804746, -54>>, <<36910821, 13344010, -55>>, <<0, 0, 0>> >>,
       << <<60145690, 30400180, -51>>, <<43368474, 30400180, -51>>, <<33554432, 0, -51>>, <<53182516, 60800361, -52>>, <<42380402, 11302533, -52>>, <<33554432, 0, -52>>, <<52184361, 32467485, -53>>, <<39256168, 121600722, -53>>, <<55705390, 25234014, -54>>, <<35303880, 45210134, -54>>, <<33696939, 77076264, -55>>, <<0, 0, 0>> >>,
       << <<62083076, 59892275, -51>>, <<45305860, 59892275, -51>>, <<35491818, 29492095, -51>>, <<57057288, 119784550, -52>>, <<46255174, 70286723, -52>>, <<37429204, 58984189, -52>>, <<59933906, 16218137, -53>>, <<47005713, 105351371, -53>>, <<35602239, 130585386, -53>>, <<50802970, 12711435, -54>>, <<64695119, 12078866, -55>>, <<61996359, 4222929, -56>>, <<0, 0, 0>> >>,
       << <<63876815, 122946605, -51>>, <<47099599, 122946605, -51>>, <<37285557, 92546425, -51>>, <<60644767, 111675482, -52>>, <<49842653, 62177655, -52>>, <<41016683, 50875122, -52>>, <<33554432, 0, -52>>, <<54180671, 89133236, -53>>, <<42777197, 114367249, -53>>, <<65152885, 114492891, -54>>, <<46697475, 40712024, -54>>, <<59698011, 4347789, -55>>, <<57399663, 4472633, -56>>, <<0, 0, 0>> >>
    >>

\* the magnitude of math.log2(probability) for probability = c / n
NegLog2(c, n) == Double(Log2Table[n][c])

\* a mutant of entropy_update: the term replaces the sum
entropy_update_Assign(entropy, c, n) ==
    FMul(FDiv(c, n), NegLog2(c, n))

\* lines 40-41 of verify_token_security.py, 45-46 of
\* generate_secure_token.py: probability = count / len(token);
\* entropy -= probability * math.log2(probability).  The product is <= 0,
\* so its magnitude is added
entropy_update(entropy, c, n) ==
    FAdd(entropy, FMul(FDiv(c, n), NegLog2(c, n)))

----------------------------------------------------------------------------
(* calculate_entropy, statement by statement *)

\* generate_secure_token.py lines 31-32 return at once for an empty token;
\* verify_token_security.py has no such test
Enter ==
    /\ ce_pc = "entry"
    /\ ce_pc' = IF ce_script = "generate_secure_token" /\ ce_token = <<>>
                THEN "returned" ELSE "count"
    /\ UNCHANGED <<ce_script, ce_token, ce_char_count, ce_pos, ce_entropy>>
    /\ UNCHANGED <<verify_vars, gen_vars, conc_vars, zendesk_vars, auth_vars, config_vars>>

\* the loop `for char in token`: one character is counted; after the last,
\* entropy = 0
CountChar ==
    /\ ce_pc = "count"
    /\ IF ce_pos < Len(ce_token)
       THEN LET char == ce_token[ce_pos + 1] IN
            /\ ce_char_count' =
                  IF DictHas(ce_char_count, char)
                  THEN DictSet(ce_char_count, char, DictGet(ce_char_count, char) + 1)
                  ELSE DictSet(ce_char_count, char, 1)
            /\ ce_pos' = ce_pos + 1
            /\ UNCHANGED <<ce_pc, ce_entropy>>
       ELSE /\ ce_pc' = "sum"
            /\ ce_pos' = 0
            /\ ce_entropy' = FZero
            /\ UNCHANGED ce_char_count
    /\ UNCHANGED <<ce_script, ce_token>>
    /\ UNCHANGED <<verify_vars, gen_vars, conc_vars, zendesk_vars, auth_vars, config_vars>>

\* the loop `for count in char_count.values()`: one term; after the last,
\* return entropy
SumTerm ==
    /\ ce_pc = "sum"
    /\ IF ce_pos < Len(ce_char_count)
       THEN /\ ce_entropy' = entropy_update(ce_entropy, ce_char_count[ce_pos + 1].value,
                                            Len(ce_token))
            /\ ce_pos' = ce_pos + 1
            /\ UNCHANGED ce_pc
       ELSE /\ ce_pc' = "returned"
            /\ UNCHANGED <<ce_pos, ce_entropy>>
    /\ UNCHANGED <<ce_script, ce_token, ce_char_count>>
    /\ UNCHANGED <<verify_vars, gen_vars, conc_vars, zendesk_vars, auth_vars, config_vars>>

EntropyNext == Enter \/ CountChar \/ SumTerm

\* MaxDistinct and more distinct characters
Letters ==
    <<"a", "b", "c", "d", "e", "f", "g", "h", "i", "j", "k", "l", "m", "n">>

\* strings without a repeated character, and short strings over two
\* characters
EntropyInputs ==
    {SubSeq(Letters, 1, n) : n \in 0 .. MaxDistinct}
      \union SeqsUpTo(RepeatChars, 4)
      \union {<<"a", "a", "b", "b", "a", "b">>}

EntropyInit ==
    /\ ce_script \in {"verify_token_security", "generate_secure_token"}
    /\ ce_token \in EntropyInputs
    /\ ce_char_count = <<>>
    /\ ce_pos = 0
    /\ ce_entropy = FZero
    /\ ce_pc = "entry"
    /\ VerifyIdle
    /\ GenIdle
    /\ ConcIdle
    /\ ZendeskIdle
    /\ AuthIdle
    /\ ConfigIdle

SpecEntropy == EntropyInit /\ [][EntropyNext]_vars

----------------------------------------------------------------------------
(* Properties of the validator, stated independently of the scan order *)

\* the result of the pattern check, once main has evaluated it
PatternChecked == Len(checks) = 4
PatternResult == checks[4]
RepeatText == "Token contains repeating pattern"
SequenceText == "Token contains sequential pattern"

\* s[i+1 .. i+L] is immediately followed by an equal block
DoubledAt(s, i, L) ==
    /\ i + 2 * L <= Len(s)
    /\ SubSeq(s, i + 1, i + L) = SubSeq(s, i + L + 1, i + 2 * L)

\* some block of s, of any length up to floor(len(s)/2), is doubled
HasAdjacentDouble(s) ==
    \E L \in 1 .. (Len(s) \div 2) : \E i \in 0 .. Len(s) : DoubledAt(s, i, L)

\* some block of a length the scan of lines 78-81 visits is doubled
HasScannedDouble(s) ==
    \E L \in 1 .. (Len(s) \div 2) :
        /\ L < 8
        /\ L < Len(s) \div 2
        /\ \E i \in 0 .. Len(s) : DoubledAt(s, i, L)

\* w is alphabet[i..i+3] of one of the three ordered alphabets, not wrapped
IsRun(w) ==
    \E a \in {ascii_lowercase, ascii_uppercase, digits} :
        \E i \in 1 .. (Len(a) - 3) : w = SubSeq(a, i, i + 3)

\* the 4-character windows of s that are runs
Runs(s) == {w \in {SubSeq(s, j, j + 3) : j \in 1 .. (Len(s) - 3)} : IsRun(w)}

\* C3: every block of length L, 1 <= L <= floor(len(s)/2), that is
\* immediately followed by an equal block makes the pattern check report a
\* repeating pattern ("aa", "abab", "xyzxyz" included)
C3_DoubledBlockIsFlagged ==
    PatternChecked /\ HasAdjacentDouble(token_part)
        => ~PatternResult.passed /\ PatternResult.message.text = RepeatText

\* C4 as written: a string holding a 4-character run reports that run
\* ("zzzabcdzzz" reports "abcd"), and "zzzabcezzz" reports no pattern
C4_RunIsTheFoundPattern ==
    PatternChecked =>
        /\ Runs(token_part) # {}
             => ~PatternResult.passed /\ PatternResult.message.pattern \in Runs(token_part)
        /\ token_part = Ex_zzzabcdzzz => PatternResult.message.pattern = Ex_abcd
        /\ token_part = Ex_zzzabcezzz => PatternResult.passed

\* C4 as amended: when the repetition scan finds no doubled block, a string
\* holding a 4-character run is reported with a run it holds as the found
\* pattern ("xzyabcdzyx" reports "abcd") and a string holding none passes
\* ("xzyabcezyx"); "zzzabcdzzz" and "zzzabcezzz" both report the repeating
\* pattern "z", which the repetition scan finds first
C4_RunReportedUnlessRepetition ==
    PatternChecked =>
        /\ ~HasScannedDouble(token_part) /\ Runs(token_part) # {}
             => /\ ~PatternResult.passed
                /\ PatternResult.message.text = SequenceText
                /\ PatternResult.message.pattern \in Runs(token_part)
        /\ ~HasScannedDouble(token_part) /\ Runs(token_part) = {}
             => PatternResult.passed
        /\ token_part = Ex_xzyabcdzyx => PatternResult.message.pattern = Ex_abcd
        /\ token_part = Ex_xzyabcezyx => PatternResult.passed
        /\ token_part \in {Ex_zzzabcdzzz, Ex_zzzabcezzz}
             => /\ ~PatternResult.passed
                /\ PatternResult.message.text = RepeatText
                /\ PatternResult.message.pattern = <<"z">>

C4_Witness ==
    /\ PatternChecked
    /\ token_part = Ex_xzyabcdzyx
    /\ PatternResult.message.pattern = Ex_abcd

\* C5: the sequence scan fires exactly on the strings that hold
\* alphabet[i..i+3], 0 <= i <= len(alphabet)-4, of a-z, A-Z or 0-9: "wxyz" and
\* "6789" fire; wrapped windows, descending runs and 3-character runs do not
C5_SequenceExactNonWrapping ==
    /\ pc = "check_patterns"
         => ((SequenceHits(token_part) # {}) <=> (Runs(token_part) # {}))
    /\ PatternChecked =>
        /\ PatternResult.message.text = SequenceText
             => PatternResult.message.pattern \in Runs(token_part)
        /\ PatternResult.message.text # RepeatText
             => (PatternResult.message.text = SequenceText <=> Runs(token_part) # {})
        /\ token_part \in {Ex_wxyz, Ex_6789}
             => PatternResult.message.text = SequenceText
                  /\ PatternResult.message.pattern = token_part
        /\ token_part \in {Ex_yzab, Ex_XYZA, Ex_8901, Ex_dcba, Ex_abc}
             => PatternResult.passed

C5_Witness ==
    /\ PatternChecked
    /\ token_part = Ex_wxyz
    /\ PatternResult.message.text = SequenceText
    /\ PatternResult.message.pattern = Ex_wxyz

\* C6: the repetition scan rejects only immediately adjacent equal blocks: a
\* reported repeating pattern is a block followed at once by its copy, and a
\* string with no adjacent doubled block and no run passes ("abXab")
C6_AdjacentDoublingOnly ==
    PatternChecked =>
        /\ PatternResult.message.text = RepeatText
             => \E i \in 0 .. Len(token_part) :
                    /\ DoubledAt(token_part, i, Len(PatternResult.message.pattern))
                    /\ Len(PatternResult.message.pattern) >= 1
                    /\ PatternResult.message.pattern
                         = SubSeq(token_part, i + 1, i + Len(PatternResult.message.pattern))
        /\ ~HasAdjacentDouble(token_part) /\ Runs(token_part) = {}
             => PatternResult.passed
        /\ token_part = Ex_abXab => PatternResult.passed

C6_Witness ==
    /\ PatternChecked
    /\ token_part = Ex_abXab
    /\ PatternResult.passed

\* C7: once main has run its checks and its reporting loop, all_passed is
\* true iff each of the four checks passes on the scored string
C7_AllPassedIffEveryCheck ==
    pc = "done" =>
        /\ all_passed <=> \A i \in 1 .. Len(checks) : checks[i].passed
        /\ all_passed <=> \A i \in 1 .. 4 : RunCheck(i, token_part, args).passed

C7_Witness ==
    /\ pc = "done"
    /\ ~all_passed
    /\ ~checks[1].passed
    /\ checks[4].passed

\* C8: all four checks run and are reported in the order length, entropy,
\* diversity, pattern, also after an earlier check has failed
C8_NoShortCircuit ==
    /\ pc \in {"begin_report", "report", "done"}
         => [i \in 1 .. Len(checks) |-> checks[i].name] = CheckNames
    /\ pc = "done"
         => [i \in 1 .. Len(logged) |-> logged[i][1]] = CheckNames

C8_Witness ==
    /\ pc = "done"
    /\ Len(logged) = 4
    /\ ~checks[1].passed
    /\ ~checks[2].passed

\* C9: no check raises on any input; the entropy of the empty string is 0;
\* the repetition scan of a string shorter than 2 finds nothing
C9_ValidationNeverErrors ==
    /\ pc # "raised"
    /\ pc = "check_length"
         => \A i \in 1 .. 4 : RunCheck(i, token_part, args).raised = ""
    /\ Len(token_part) = 0 /\ Len(checks) >= 2
         => checks[2].message.measured = 0
    /\ Len(token_part) < 2 /\ PatternChecked
         => PatternResult.message.text # RepeatText

C9_Witness ==
    /\ pc = "done"
    /\ bearer_token = <<>>
    /\ token_part = <<>>
    /\ Len(checks) = 4
    /\ ~all_passed

\* the input without its 7-character "Bearer " prefix, if it has one
Stripped(bt) ==
    IF Len(bt) >= 7 /\ SubSeq(bt, 1, 7) = Bearer
    THEN SubSeq(bt, 8, Len(bt))
    ELSE bt

\* C10: every check scores the input with a leading "Bearer " removed, and
\* nothing else removed; an input without that prefix is scored unchanged
C10_BearerPrefixStripped ==
    /\ pc # "extract" => token_part = Stripped(bearer_token)
    /\ pc = "done"
         => /\ Len(checks) = 4
            /\ \A i \in 1 .. 4 :
                  LET r == RunCheck(i, Stripped(bearer_token), args) IN
                  /\ checks[i].passed = r.passed
                  /\ checks[i].message = r.message

C10_Witness ==
    /\ pc = "done"
    /\ bearer_token = Bearer \o <<"a", " ", "a">>
    /\ token_part = <<"a", " ", "a">>

\* the class of one character: everything that is no ASCII letter and no
\* decimal digit is a symbol
ClassOf(c) ==
    IF c \in Range(ascii_uppercase) THEN "uppercase"
    ELSE IF c \in Range(ascii_lowercase) THEN "lowercase"
    ELSE IF c \in Range(digits) THEN "digit"
    ELSE "symbol"

\* the number of distinct classes present in s
ClassCount(s) == Cardinality({ClassOf(s[i]) : i \in DOMAIN s})

DiversityChecked == Len(checks) >= 3
DiversityResult == checks[3]

C16_GeneratorValidatorAgree ==
    pc = "check_length" =>
        /\ gen_calculate_entropy(token_part) = calculate_entropy(token_part)
        /\ gen_check_character_diversity(token_part)
             <=> check_character_diversity(token_part).passed
        /\ gen_check_common_patterns(token_part)
             <=> check_common_patterns(token_part).passed
        /\ \A me \in MinEntropies \union GenMinEntropies :
              gen_rejected(gen_calculate_entropy(token_part).value, me,
                           gen_check_character_diversity(token_part),
                           gen_check_common_patterns(token_part))
                <=> \E i \in 2 .. 4 :
                       ~RunCheck(i, token_part, [min_length |-> 0, min_entropy |-> me]).passed

C16_Witness ==
    /\ pc = "check_length"
    /\ token_part = <<>>
    /\ gen_calculate_entropy(token_part).value = 0
    /\ calculate_entropy(token_part).value = 0

----------------------------------------------------------------------------
(* Properties of the generator *)

\* C1: a returned token has entropy >= min_entropy, passes the generator's
\* diversity and pattern checks, and passes every check of the validator run
\* with min_length = length and the same min_entropy
C1_GeneratorSelfConsistent ==
    gpc = "returned" =>
        /\ gen_calculate_entropy(token).value >= min_entropy
        /\ gen_check_character_diversity(token)
        /\ gen_check_common_patterns(token)
        /\ \A i \in 1 .. 4 :
              LET r == RunCheck(i, token, [min_length |-> length,
                                           min_entropy |-> min_entropy])
              IN  r.raised = "" /\ r.passed

C1_Witness ==
    /\ gpc = "returned"
    /\ depth >= 1
    /\ Len(token) = 5
    /\ min_entropy = 2000000

\* C2: a call that has ended has returned a token or has failed with
\* GenerationExhausted at the retry cap
C2_ReturnsOrGenerationExhausted ==
    gpc \notin {"draw", "check"} => gpc \in {"returned", "GenerationExhausted"}

\* the thresholds a validator may be run with
LooserEntropies == GenMinEntropies \union MinEntropies
LooserLengths == 0 .. (MaxLength + 1)

\* C11: a token returned for (length, min_entropy) passes every validator
\* check under any validator policy with min_length <= length and a
\* min_entropy that is not larger
C11_StricterGenerationLooserValidation ==
    gpc = "returned" =>
        \A ml \in LooserLengths, me \in LooserEntropies :
            ml <= length /\ me <= min_entropy
                => \A i \in 1 .. 4 :
                      LET r == RunCheck(i, token, [min_length |-> ml, min_entropy |-> me])
                      IN  r.raised = "" /\ r.passed

C11_Witness ==
    /\ gpc = "returned"
    /\ length = 5
    /\ min_entropy = 2000000
    /\ RunCheck(2, token, [min_length |-> 4, min_entropy |-> 1000000]).passed
    /\ RunCheck(1, token, [min_length |-> 4, min_entropy |-> 1000000]).passed

\* C12: for a requested length >= 4, every candidate and every returned token
\* has exactly length characters, at every depth of retry
C12_TokenLength ==
    length >= 4 /\ gpc \in {"check", "returned", "RecursionError"}
        => Len(token) = length

C12_Witness ==
    /\ gpc = "returned"
    /\ depth >= 1
    /\ length = 5
    /\ Len(token) = 5

\* the fixed punctuation set and the fixed alphabet of lines 93-96 and 107
Punctuation == Range(special)
FixedAlphabet ==
    Range(ascii_uppercase) \union Range(ascii_lowercase) \union Range(digits)
      \union Punctuation

\* C13: a returned token holds an uppercase letter, a lowercase letter, a
\* digit and a symbol of the punctuation set, and nothing outside the fixed
\* alphabet; a request for fewer than 4 characters returns 4
C13_ClassGuarantee ==
    gpc = "returned" =>
        /\ \E i \in DOMAIN token : token[i] \in Range(ascii_uppercase)
        /\ \E i \in DOMAIN token : token[i] \in Range(ascii_lowercase)
        /\ \E i \in DOMAIN token : token[i] \in Range(digits)
        /\ \E i \in DOMAIN token : token[i] \in Punctuation
        /\ \A i \in DOMAIN token : token[i] \in FixedAlphabet
        /\ length < 4 => Len(token) = 4

C13_Witness ==
    /\ gpc = "returned"
    /\ length = 2
    /\ Len(token) = 4

\* C14: a call with length < 1 is refused before any character is drawn and
\* returns no token
C14_InvalidPolicyRejected ==
    length < 1 => token = <<>> /\ gpc \in {"draw", "InvalidPolicy"}

----------------------------------------------------------------------------
(* Properties of concurrent callers *)

\* each finished call of caller c is what its own arguments determine
OwnResult(c) ==
    LET f == calls[c]
        policy == [min_length |-> f.min_length, min_entropy |-> f.min_entropy]
    IN  /\ f.op = "generate" /\ f.pc = "returned"
            => /\ Len(f.token) = f.length
               /\ gen_calculate_entropy(f.token).value >= f.min_entropy
               /\ gen_check_character_diversity(f.token)
               /\ gen_check_common_patterns(f.token)
        /\ f.op = "evaluate"
            => \A i \in DOMAIN f.results : f.results[i] = RunCheck(i, f.token, policy)

\* a step belongs to one caller: every other frame is left as it was, and
\* the caller's own arguments are not assigned
OneFrameStep ==
    \E c \in Callers :
        /\ \A d \in Callers \ {c} : calls'[d] = calls[d]
        /\ calls'[c].op = calls[c].op
        /\ calls'[c].length = calls[c].length
        /\ calls'[c].min_length = calls[c].min_length
        /\ calls'[c].min_entropy = calls[c].min_entropy
        /\ calls[c].op = "evaluate" => calls'[c].token = calls[c].token

\* C18: under every interleaving of concurrent generate and evaluate calls,
\* no step of one call changes the frame of another, every evaluate result
\* is the one its own token and policy give, and every token generate
\* returns meets the policy of its own call, retries included.
C18_NoInterference ==
    /\ [](\A c \in DOMAIN calls : OwnResult(c))
    /\ [][OneFrameStep]_vars

\* a generate call has returned, after a retry, next to a finished call that
\* ran under another entropy threshold
C18_Witness ==
    /\ calls # <<>>
    /\ \E c \in Callers, d \in Callers :
        /\ calls[c].op = "generate" /\ calls[c].pc = "returned" /\ calls[c].depth > 0
        /\ calls[d].pc \in {"done", "RecursionError"}
        /\ calls[d].min_entropy # calls[c].min_entropy

----------------------------------------------------------------------------
(* Properties of the Zendesk configurator *)

\* the names the integration gives its resources, by endpoint
Configured ==
    [ticket_fields |-> {FIELD_AWS_SERVICE, FIELD_AWS_CATEGORY, FIELD_AWS_SEVERITY},
     ticket_forms |-> {TICKET_FORM_NAME},
     webhooks |-> {WEBHOOK_AWS_CREATE, WEBHOOK_AWS_UPDATE, WEBHOOK_AWS_SOLVED},
     trigger_categories |-> {TRIGGER_CATEGORY},
     triggers |-> {TRIGGER_AWS_CREATE, TRIGGER_AWS_UPDATE, TRIGGER_AWS_SOLVED}]

\* the resources of an endpoint that carry a given name
Named(type, name) == {i \in DOMAIN remote[type] : remote[type][i].name = name}

\* the resources of an endpoint that carry one of the integration's names
Integration(type) == {i \in DOMAIN remote[type] : remote[type][i].name \in Configured[type]}

\* the POST requests run r has sent for a name
PostsBy(r, name) ==
    {i \in DOMAIN http_log :
        http_log[i].run = r /\ http_log[i].method = "POST" /\ http_log[i].name = name}

\* the id a configurator holds for the resource of a setup step
RecordedId(c, s) ==
    CASE s.call = "create_custom_field"
            -> IF DictHas(c.custom_field_ids, s.name) THEN DictGet(c.custom_field_ids, s.name) ELSE None
      [] s.call = "create_ticket_form" -> c.ticket_form_id
      [] s.call = "create_webhook"
            -> IF DictHas(c.webhook_ids, s.name) THEN DictGet(c.webhook_ids, s.name) ELSE None
      [] s.call = "create_trigger_category" -> c.trigger_category_id
      [] s.call = "create_trigger"
            -> IF DictHas(c.trigger_ids, s.name) THEN DictGet(c.trigger_ids, s.name) ELSE None
      [] OTHER -> c.solved_status_id

\* the creating steps of setup
CreateSteps == {k \in DOMAIN SetupSteps : SetupSteps[k].call # "get_resource_id"}

\* run r has returned from step k of setup
Passed(r, k) ==
    \/ conf[r].pc = "done"
    \/ conf[r].pc \in {"get", "post", "failed"} /\ conf[r].step > k

\* no run after r has got past its constructor
Latest(r) == \A q \in (r + 1) .. MaxRuns : conf[q].pc = "construct"

RequestsBy(r, method) ==
    {i \in DOMAIN http_log : http_log[i].run = r /\ http_log[i].method = method}

\* at the time of request i, Zendesk held a resource with this id that a
\* setup run had created
ExistedAt(i, id) ==
    /\ \E j \in 1 .. (i - 1) :
          http_log[j].method = "POST" /\ http_log[j].response = "ok" /\ http_log[j].id = id
    /\ ~\E j \in 1 .. (i - 1) :
          http_log[j].method = "DELETE" /\ http_log[j].response = "ok" /\ http_log[j].id = id

\* the resources of the account that are not the integration's are all there
OthersUntouched ==
    \A type \in DOMAIN Account : \A i \in DOMAIN Account[type] :
        \E j \in DOMAIN remote[type] : remote[type][j] = Account[type][i]

\* what a delete run does besides removing: every DELETE follows a GET of
\* the same endpoint by the same run and names a resource of the
\* integration that exists, and nothing else is removed
DeleteByLookup ==
    /\ OthersUntouched
    /\ \A r \in DOMAIN conf : conf[r].action = "delete" =>
          \A i \in RequestsBy(r, "DELETE") :
              /\ \E j \in RequestsBy(r, "GET") : j < i /\ http_log[j].type = http_log[i].type
              /\ ExistedAt(i, http_log[i].id)

\* C20: delete_zendesk_configuration on a fresh configurator finds the ids
\* by GET; when it has completed, no trigger, trigger category, webhook,
\* ticket form or custom field with one of the integration's names exists
\* in Zendesk; a name that is not listed is not the subject of a DELETE, and
\* no resource with another name is deleted.
C20_DeleteIndependentOfSetup ==
    /\ DeleteByLookup
    /\ \A r \in DOMAIN conf :
          conf[r].action = "delete" /\ conf[r].pc = "done" /\ Latest(r)
              => \A type \in DOMAIN Configured : Integration(type) = {}

\* the place of an endpoint in the order of deletion, lines 600-617
DeleteRank(type) ==
    CASE type = "triggers" -> 1
      [] type = "trigger_categories" -> 2
      [] type = "webhooks" -> 3
      [] type = "ticket_forms" -> 4
      [] type = "ticket_fields" -> 5

\* at the time of request i, a resource of this endpoint that a setup run
\* had created was in Zendesk
SomeExistedAt(i, type) ==
    \E j \in 1 .. (i - 1) :
        /\ http_log[j].method = "POST" /\ http_log[j].response = "ok"
        /\ http_log[j].type = type
        /\ ExistedAt(i, http_log[j].id)

\* the requests of a delete run come in the order of the source: the GETs,
\* then the DELETEs by endpoint
DeleteRequestOrder ==
    \A r \in DOMAIN conf : conf[r].action = "delete" =>
        /\ \A i \in RequestsBy(r, "GET"), j \in RequestsBy(r, "DELETE") : i < j
        /\ \A i \in RequestsBy(r, "DELETE"), j \in RequestsBy(r, "DELETE") :
              i < j => DeleteRank(http_log[i].type) <= DeleteRank(http_log[j].type)

\* C21: in a delete run every GET precedes every DELETE, the DELETEs go
\* triggers, trigger category, webhooks, ticket form, custom fields, and
\* Zendesk never removes a webhook or the trigger category while a trigger
\* of the integration exists, nor a custom field while the ticket form
\* exists.
C21_DeleteInDependencyOrder ==
    /\ DeleteRequestOrder
    /\ \A r \in DOMAIN conf : conf[r].action = "delete" =>
          \A i \in RequestsBy(r, "DELETE") : http_log[i].response = "ok" =>
              /\ http_log[i].type \in {"webhooks", "trigger_categories"}
                    => ~SomeExistedAt(i, "triggers")
              /\ http_log[i].type = "ticket_fields"
                    => ~SomeExistedAt(i, "ticket_forms")

\* the configurator holds an id for each of the three custom fields
FieldsRecorded(c) ==
    \A name \in Configured["ticket_fields"] : DictHas(c.custom_field_ids, name)

\* what a trigger's payload needs is recorded
TriggerReady(c, title) ==
    /\ c.trigger_category_id # None
    /\ DictHas(c.webhook_ids, WebhookOf(title))
    /\ title = TRIGGER_AWS_CREATE => FieldsRecorded(c)

\* C23: when setup is about to create a trigger, the trigger category id and
\* the id of the trigger's webhook are recorded, and for the create trigger
\* the ids of the three custom fields; the ticket form is created when the
\* three custom fields have ids, and its field list holds them; once a
\* request of a setup run has raised, the run sends no further request, so
\* it creates nothing more.
C23_SetupDependencyOrder ==
    \A r \in DOMAIN conf : conf[r].action = "setup" =>
        /\ conf[r].pc \in {"get", "post"} =>
              LET s == SetupSteps[conf[r].step]
              IN  /\ s.call = "create_trigger" => TriggerReady(conf[r], s.name)
                  /\ s.call = "create_ticket_form" => FieldsRecorded(conf[r])
        /\ \A i \in PostsBy(r, TICKET_FORM_NAME) : http_log[i].response = "ok" =>
              /\ FieldsRecorded(conf[r])
              /\ Latest(r) =>
                    \E x \in DOMAIN remote["ticket_forms"] :
                        /\ remote["ticket_forms"][x].id = http_log[i].id
                        /\ \A y \in DOMAIN conf[r].custom_field_ids :
                              conf[r].custom_field_ids[y].value
                                  \in Range(remote["ticket_forms"][x].refs)
        /\ \A i \in DOMAIN http_log :
              http_log[i].run = r /\ http_log[i].response # "ok"
                  => /\ conf[r].pc = "failed"
                     /\ \A j \in DOMAIN http_log : http_log[j].run = r => j <= i

\* a setup run is about to POST the create trigger with all it needs
\* recorded, after an earlier run stopped at a request that raised
C23_Witness ==
    /\ conf # <<>>
    /\ conf[1].action = "setup" /\ conf[1].pc = "failed"
    /\ conf[2].action = "setup" /\ conf[2].pc = "post"
    /\ SetupSteps[conf[2].step].name = TRIGGER_AWS_CREATE
    /\ TriggerReady(conf[2], TRIGGER_AWS_CREATE)

\* C24: whatever the method, a request Zendesk answers with an error
\* status raises, with or without a response body: the run that sent it
\* ends there as failed, so delete_resource goes on to report success only
\* for a DELETE that Zendesk carried out.
C24_HttpFailuresRaise ==
    \A i \in DOMAIN http_log : http_log[i].response # "ok" =>
        /\ conf[http_log[i].run].pc = "failed"
        /\ \A j \in DOMAIN http_log : http_log[j].run = http_log[i].run => j <= i

\* C26: when two setup runs have gone through the same account at the same
\* time, their GET and POST requests interleaved in any order, and both
\* have finished, no configured name is carried by two resources.
C26_ParallelSetupCreatesOnce ==
    (\A r \in Parallel : conf[r].action = "setup" /\ conf[r].pc \in {"done", "failed"})
        => \A type \in DOMAIN Configured : \A name \in Configured[type] :
              Cardinality(Named(type, name)) <= 1

----------------------------------------------------------------------------
(* Properties of the API authorizer *)

\* the event carries a dict of headers
HasHeaders ==
    /\ DictHas(event.items, "headers")
    /\ DictGet(event.items, "headers").type = "dict"

\* the headers hold a str under 'authorization' that spells "Bearer ", then
\* the stored secret, and nothing more
BearerOfSecret ==
    /\ HasHeaders
    /\ LET headers == DictGet(event.items, "headers").items
           secret == API_TOKEN.chars
       IN  \E i \in DOMAIN headers :
              /\ headers[i].key = "authorization"
              /\ headers[i].value.type = "str"
              /\ Len(headers[i].value.chars) = 7 + Len(secret)
              /\ \A j \in 1 .. 7 : headers[i].value.chars[j] = Bearer[j]
              /\ \A j \in 1 .. Len(secret) : headers[i].value.chars[7 + j] = secret[j]

\* C22: lambda_handler returns isAuthorized = true exactly when the
\* 'authorization' header is "Bearer " followed by the stored secret; with
\* headers that lack it, or hold any other value, it returns isAuthorized =
\* false; and when the event has no headers to read it returns None, never
\* an authorized result.
C22_AuthorizerDecision ==
    /\ returned.isAuthorized => returned.type = "dict" /\ BearerOfSecret
    /\ apc = "return" =>
          /\ BearerOfSecret => returned = Returned("dict", TRUE)
          /\ HasHeaders /\ ~BearerOfSecret => returned = Returned("dict", FALSE)
          /\ ~HasHeaders => returned = Returned("NoneType", FALSE)

\* the handler has authorized a request
C22_Witness ==
    /\ apc = "return"
    /\ returned = Returned("dict", TRUE)
    /\ PyGet(DictGet(event.items, "headers"), "authorization", PyNone)
          = Str(Bearer \o API_TOKEN.chars)

----------------------------------------------------------------------------
(* Properties of update_config_file *)

\* the keys of the object a file holds
KeysOf(file) == {file.doc.members[i].key : i \in DOMAIN file.doc.members}

\* the value a reader of the file finds under a key: that of the last
\* member with the key
ValueOf(file, k) ==
    LET at == {i \in DOMAIN file.doc.members : file.doc.members[i].key = k}
        last == CHOOSE i \in at : \A j \in at : j <= i
    IN  Loads(file.doc.members[last].value)

\* the file could not be read, or did not hold JSON
NotReadable(file) ==
    file.mode \in {"missing", "unreadable"} \/ file.doc.form = "garbage"

\* C25: when update_config_file has returned success the pair is (True,
\* None) and the file holds an object with the keys it had before and
\* bearer_token, every other key with the value it had and bearer_token
\* with the new token; when the file could not be read or parsed the pair
\* is (False, message) and the file is as it was; main exits with 1 exactly
\* when the update failed.
C25_OnlyBearerTokenChanges ==
    /\ upc \in {"returned", "exit"} /\ update_result.success =>
          /\ update_result = Updated
          /\ ~NotReadable(file_at_entry)
          /\ config_file.doc.form = "object"
          /\ config_file.mode = file_at_entry.mode
          /\ KeysOf(config_file) = KeysOf(file_at_entry) \union {"bearer_token"}
          /\ \A k \in KeysOf(file_at_entry) \ {"bearer_token"} :
                ValueOf(config_file, k) = ValueOf(file_at_entry, k)
          /\ ValueOf(config_file, "bearer_token") = new_token
    /\ upc \in {"returned", "exit"} /\ NotReadable(file_at_entry) =>
          /\ update_result = NotUpdated
          /\ config_file = file_at_entry
    /\ upc = "exit" => exit_code = IF update_result.success THEN 0 ELSE 1

\* a file that held a region and an older token has been updated
C25_Witness ==
    /\ upc = "returned"
    /\ update_result = Updated
    /\ file_at_entry.doc.members =
          <<[key |-> "region", value |-> "1.50"], [key |-> "bearer_token", value |-> "\"old\""]>>
    /\ config_file # file_at_entry

----------------------------------------------------------------------------
(* Properties of calculate_entropy in double precision *)

\* math.log2(k) for k = 1 .. 14, as <<hi, lo, e>>
Log2OfInt ==
    << <<0, 0, 0>>,
       <<33554432, 0, -52>>,
       <<53182516, 60800360, -52>>,
       <<33554432, 0, -51>>,
       <<38955489, 24748913, -51>>,
       <<43368474, 30400180, -51>>,
       <<47099599, 122946605, -51>>,
       <<50331648, 0, -51>>,
       <<53182516, 60800360, -51>>,
       <<55732705, 24748913, -51>>,
       <<58039631, 67525954, -51>>,
       <<60145690, 30400180, -51>>,
       <<62083076, 59892275, -51>>,
       <<63876815, 122946605, -51>> >>

\* number of characters of the alphabet tokens are drawn from
AlphabetSize == Cardinality(FixedAlphabet)

\* log2(min(length, alphabet size)) for a non-empty token
EntropyBound(tok) == Double(Log2OfInt[Min(Len(tok), AlphabetSize)])

\* 2^-20, less than a millionth of a bit
Tolerance == [m |-> Zeros(52) \o <<1>>, e |-> -72]

\* the token is made of two distinct characters that occur equally often
TwoEquiprobable(tok) ==
    /\ Cardinality(Range(tok)) = 2
    /\ \A x \in Range(tok) :
          2 * Cardinality({i \in DOMAIN tok : tok[i] = x}) = Len(tok)

\* what C17 says of the exact values: 0 for the empty string and for a
\* string of one repeated character, 1.0 for two equiprobable characters
ExactValues ==
    /\ Cardinality(Range(ce_token)) <= 1 => ce_entropy = FZero
    /\ TwoEquiprobable(ce_token) => ce_entropy = FOne

====
